---- MODULE Spec2Model ----
(***************************************************************************)
(* Model of the ncatos monitors: the retry/poll loop that ocspMonitorStart *)
(* (ocsp.go), tspMonitorStart (tsp.go, kept in README.md) and              *)
(* httpMonitorStart (unnamed/part_000) run in one goroutine each, the      *)
(* transport call postRequest (network.go), waitForTimeout (config.go)     *)
(* and the metrics sink (unnamed/part_001).                                *)
(***************************************************************************)
EXTENDS Integers, Sequences, FiniteSets, TLC

\* ------------------------------------------------------------------ bounds

\* largest configured retrycount (0 means endless)
MaxRetryCount == 2
\* attempts an endless monitor (retrycount 0) is followed for
MaxAttempts == 2
\* largest retry interval, in ticks
MaxInterval == 1
\* largest response body, in bytes; the bodies are the three longest
MaxBodyLen == 3

\* --------------------------------------------------------------- constants

Monitors == {"ocsp", "tsp", "http"}

\* config.go: responseErrorNet, responseErrorHTTP, responseErrorAsn, responseErrorContents
responseErrorNet == "net"
responseErrorHTTP == "http"
responseErrorAsn == "asn1"
responseErrorContents == "contents"
ErrorTypes == {responseErrorNet, responseErrorHTTP, responseErrorAsn, responseErrorContents}

\* net/http: StatusOK and StatusMultipleChoices, the bounds of the accepted range
StatusOK == 200
StatusMultipleChoices == 300
\* status codes a server answers with: both sides of both ends of the range
StatusCodes == {StatusOK - 1, StatusOK, StatusMultipleChoices - 1, StatusMultipleChoices}

\* capacity of resultChannel: make(chan error, 1)
ChannelCapacity == 1

\* what a response body is to the decoder and the validator:
\*   "garbage": asn1.Unmarshal of the outer response fails
\*   "invalid": the outer response decodes, the validator rejects it
\*   "valid":   the validator accepts it
BodyKinds == {"garbage", "invalid", "valid"}
Bodies == [len : (MaxBodyLen - 2)..MaxBodyLen, kind : BodyKinds]
NoBody == [len |-> 0, kind |-> "garbage"]

VARIABLES
    cfg,            \* cfg[m]: the monitor's section of appConfig
    verbose,        \* Config.Log.Verbose
    ctxErr,         \* exitCtx.Err() != nil
    caller,         \* caller[m]: where the caller of xMonitorStart is
    sch,            \* sch[m]: the readiness channel is closed
    pc,             \* pc[m]: where the worker goroutine is
    i,              \* i[m]: the loop's attempt index
    lastError,      \* lastError[m]: "nil" or the terminal error
    resultChannel,  \* resultChannel[m]: the buffered values
    closes,         \* closes[m]: how many times resultChannel was closed
    dropped,        \* dropped[m]: the deferred select took its default branch
    sends,          \* sends[m]: calls of client.Do
    waits,          \* waits[m]: calls of waitForTimeout
    observations,   \* requestProcessingTimes: observations per protocol
    responseErrors, \* responseErrors[m][et]: the error counters
    timer,          \* timer[m]: ticks left on the timer of waitForTimeout
    panicking,      \* panicking[m]: the worker is unwinding a run-time panic
    nr,             \* nr[m]: what postRequest returned, until it is processed
    exit,           \* exit[m]: how the loop was left
    log,            \* the log sink: the events emitted so far
    \* one poll cycle seen from the codec: the request object, its encoding, the
    \* decoded response and the validator's verdict
    proto,          \* the protocol of the codec: "ocsp" or "tsp"
    codecCfg,       \* cfg.NonceSize and digestSize as the monitor passes them
    request,        \* req: the request object the monitor keeps across cycles
    encoded,        \* reqEnc: what the encoder returned
    nonce,          \* nonce: the nonce ocspEncodeRequest returned
    rnd,            \* what random() returned in this cycle
    response,       \* resp: the decoded outer response
    validateError,  \* validateError: the validator's verdict
    cycle,          \* the poll cycles begun
    phase,          \* where the cycle is
    \* one transport call seen from the wire
    httpResponse,   \* what the server answers: status code and body
    maxResponseSize, \* *cfg.MaxResponseSize as passed for maxSize
    postResult,     \* what postRequest returned
    \* buildConfig
    configFile,     \* the sections decoded from the configuration file
    givenFlags,     \* the flags given on the command line, with their values
    out,            \* the appConfig being built
    configPc,       \* where buildConfig is
    \* main
    mainPc,         \* where main is
    exitCode,       \* main's exitCode variable
    osExit,         \* the argument the deferred os.Exit was given
    exitStatus,     \* the status the process ended with
    stopError,      \* main's stopError variable
    channels,       \* main's channel variables: nil or set
    srvMetrics      \* the metrics server: enabled, failed

\* the state of the codec
codecVars == <<proto, codecCfg, request, encoded, nonce, rnd, response,
               validateError, cycle, phase>>

\* the state of a transport call
transportVars == <<httpResponse, maxResponseSize, postResult>>

\* the state of buildConfig
configVars == <<configFile, givenFlags, out, configPc>>

\* the state of main
mainVars == <<mainPc, exitCode, osExit, exitStatus, stopError, channels, srvMetrics>>

\* the state outside the monitors and their codecs
otherVars == <<transportVars, configVars, mainVars>>

vars == <<cfg, verbose, ctxErr, caller, sch, pc, i, lastError, resultChannel,
          closes, dropped, sends, waits, observations, responseErrors, timer,
          panicking, nr, exit, log, codecVars, otherVars>>

\* ------------------------------------------------------------ configuration

\* a section accepted by Validate: retrycount >= 0, noncesize >= 0,
\* maxresponsesize >= 0, a URL that is not empty (it is not parsed there).
\* The limit on the response is off (0) or one byte under the longest body.
Configs ==
    [Disabled : BOOLEAN,
     URLParses : BOOLEAN,
     RetryCount : 0..MaxRetryCount,
     RetryIntervalValue : {0, MaxInterval},
     NonceSize : 0..1,
     MaxResponseSize : {0, MaxBodyLen - 1}]

DisabledConfig ==
    [Disabled |-> TRUE, URLParses |-> TRUE, RetryCount |-> 0,
     RetryIntervalValue |-> 0, NonceSize |-> 0, MaxResponseSize |-> 0]

\* ---------------------------------------------------------------- transport

networkResult(status, time, body) ==
    [StatusCode |-> status, SendReceiveTime |-> time, Body |-> body]

\* the errors client.Do and the body reader end with: "net" is any error that is
\* not the context's (refused, reset, Client.Timeout), "ctx" wraps ctx.Err() and
\* arises only once the context is cancelled
TransportErrors(cancelled) == IF cancelled THEN {"net", "ctx"} ELSE {"net"}

\* io.LimitedReader{N: maxSize} under io.ReadAll: the bytes read
LimitedRead(body, maxSize) ==
    IF body.len > maxSize
    THEN [len |-> maxSize, kind |-> "garbage"]
    ELSE body

\* the reader never reporting that the limit was reached
ReadBodyNoSizeError(body, maxSize) ==
    [Body |-> IF maxSize > 0 THEN LimitedRead(body, maxSize) ELSE body,
     err |-> "nil"]

\* reading the body with regard to maxSize, the read itself not failing: the
\* bytes read and the error; limitedReader.N is maxSize less the bytes read
ReadBody(body, maxSize) ==
    [Body |-> IF maxSize > 0 THEN LimitedRead(body, maxSize) ELSE body,
     err |-> IF maxSize > 0 /\ maxSize - LimitedRead(body, maxSize).len = 0
             THEN "size" ELSE "nil"]

\* the results of one postRequest call: the set of (networkResult, error) it may
\* return.  time.Since around client.Do is read on a monotonic nanosecond clock
\* and is positive; only a failed http.NewRequestWithContext leaves it 0.
postRequest(cancelled, urlParses, maxSize) ==
    IF ~urlParses
    THEN {[nr |-> networkResult(0, 0, NoBody), err |-> "create"]}
    ELSE
        \* client.Do failed
        {[nr |-> networkResult(0, 1, NoBody), err |-> e] : e \in TransportErrors(cancelled)}
        \cup
        \* the headers arrived and reading the body failed
        {[nr |-> networkResult(s, 1, NoBody), err |-> e] :
            s \in StatusCodes, e \in TransportErrors(cancelled)}
        \cup
        \* the body was read
        {[nr |-> networkResult(s, 1, ReadBody(b, maxSize).Body),
          err |-> ReadBody(b, maxSize).err] :
            s \in StatusCodes, b \in Bodies}

\* getRequest, the HTTP monitor's GET counterpart of postRequest: by the
\* transport contract it returns what postRequest returns
getRequest(cancelled, urlParses, maxSize) == postRequest(cancelled, urlParses, maxSize)

\* the transport call of monitor m
Transport(m, cancelled, urlParses, maxSize) ==
    IF m = "http"
    THEN getRequest(cancelled, urlParses, maxSize)
    ELSE postRequest(cancelled, urlParses, maxSize)

\* no call of postRequest is waiting to be processed
NoResult == [nr |-> networkResult(0, 0, NoBody), err |-> "none"]

\* errors.Is(err, ctx.Err())
ErrorsIsCtxErr(err) == err = "ctx"

\* ------------------------------------------------------------------- codecs

\* ocspEncodeRequest / tspEncodeRequest: whether the call may return an error
\* (random or asn1.Marshal failing); the HTTP monitor builds no request
EncodeResults(m) == IF m = "http" THEN {"nil"} ELSE {"nil", "encode"}

\* asn1.Unmarshal(nr.Body, &resp) of the outer OCSPResponse / TimeStampResp
Unmarshal(body) == body.kind # "garbage"

\* ocspResponseValidate / tspResponseValidate: no error
ResponseValidate(body) == body.kind = "valid"

\* ------------------------------------------------------------ the monitors

\* the loop condition: cfg.RetryCount == 0 || i < cfg.RetryCount
LoopCondition(retryCount, n) == retryCount = 0 \/ n < retryCount

\* a faulty guard: the wait is made after the last attempt too
WaitsAfterEveryAttempt(retryCount, n) == TRUE

\* a faulty guard: only a monitor with no retry limit waits
WaitsOnlyWhenEndless(retryCount, n) == retryCount = 0

\* the guard of every waitForTimeout call: cfg.RetryCount == 0 || i != cfg.RetryCount-1
WaitsAfterAttempt(retryCount, n) == retryCount = 0 \/ n # retryCount - 1

\* the zero result the monitors take for a request that could not be created
RequestNotCreated(result) == result.StatusCode = 0 /\ result.SendReceiveTime = 0

\* a faulty classification: a transport error ends the monitor
ClassifyNetFatal(m, r, cancelled) ==
    IF RequestNotCreated(r.nr) \/ r.err # "nil" THEN "fatal"
    ELSE IF r.nr.StatusCode < StatusOK \/ r.nr.StatusCode >= StatusMultipleChoices
    THEN responseErrorHTTP
    ELSE IF m = "http" THEN "success"
    ELSE IF ~Unmarshal(r.nr.Body) THEN responseErrorAsn
    ELSE IF ~ResponseValidate(r.nr.Body) THEN responseErrorContents
    ELSE "success"

\* a faulty classification: the response is decoded before its status is tested
ClassifyDecodeFirst(m, r, cancelled) ==
    IF RequestNotCreated(r.nr) THEN "fatal"
    ELSE IF r.err # "nil"
    THEN IF cancelled /\ ErrorsIsCtxErr(r.err) THEN "cancelled" ELSE responseErrorNet
    ELSE IF m # "http" /\ ~Unmarshal(r.nr.Body) THEN responseErrorAsn
    ELSE IF r.nr.StatusCode < StatusOK \/ r.nr.StatusCode >= StatusMultipleChoices
    THEN responseErrorHTTP
    ELSE IF m = "http" THEN "success"
    ELSE IF ~ResponseValidate(r.nr.Body) THEN responseErrorContents
    ELSE "success"

\* a faulty classification: errors.Is is missing, any error of a cancelled
\* context ends the loop
ClassifyAnyErrorCancelled(m, r, cancelled) ==
    IF RequestNotCreated(r.nr) THEN "fatal"
    ELSE IF r.err # "nil"
    THEN IF cancelled THEN "cancelled" ELSE responseErrorNet
    ELSE IF r.nr.StatusCode < StatusOK \/ r.nr.StatusCode >= StatusMultipleChoices
    THEN responseErrorHTTP
    ELSE IF m = "http" THEN "success"
    ELSE IF ~Unmarshal(r.nr.Body) THEN responseErrorAsn
    ELSE IF ~ResponseValidate(r.nr.Body) THEN responseErrorContents
    ELSE "success"

\* how the loop body classifies what postRequest returned:
\*   "fatal"     lastError is set and the loop is left
\*   "cancelled" the loop is left silently
\*   "net", "http", "asn1", "contents"  the error counter to increment
\*   "success"
Classify(m, r, cancelled) ==
    IF RequestNotCreated(r.nr) THEN "fatal"
    ELSE IF r.err # "nil"
    THEN IF cancelled /\ ErrorsIsCtxErr(r.err) THEN "cancelled" ELSE responseErrorNet
    ELSE IF r.nr.StatusCode < StatusOK \/ r.nr.StatusCode >= StatusMultipleChoices
    THEN responseErrorHTTP
    ELSE IF m = "http" THEN "success"
    ELSE IF ~Unmarshal(r.nr.Body) THEN responseErrorAsn
    ELSE IF ~ResponseValidate(r.nr.Body) THEN responseErrorContents
    ELSE "success"

\* a log event: its protocol, message, "num" and "error-type" fields, and for a
\* "stop" event the terminal error
Event(m, msg, num, errorType, err) ==
    [protocol |-> m, msg |-> msg, num |-> num, errorType |-> errorType, err |-> err,
     fields |-> {}, late |-> {}]

\* the verbose fields of the response's status line
StatusFields == {"statusCode", "contentType"}

\* the status fields the attempt's event holds when Msg emits it: the OCSP and
\* TSP monitors add them, if verbose, after the status test and before the
\* decode step
FieldsBeforeMsg(m, v, outcome) ==
    IF v /\ m # "http" /\ outcome \in {responseErrorAsn, responseErrorContents, "success"}
    THEN StatusFields ELSE {}

\* the status fields added to the attempt's event after Msg has emitted it: the
\* HTTP monitor calls le.Msg("request succeed") and then, if verbose, le.Int
\* and le.Str
FieldsAfterMsg(m, v, outcome) ==
    IF v /\ m = "http" /\ outcome = "success" THEN StatusFields ELSE {}

\* a faulty event: it is tagged with the loop index
AttemptEventTaggedWithIndex(m, v, index, outcome) ==
    [Event(m, IF outcome = "success" THEN "request succeed" ELSE "request failed",
           index, IF outcome = "success" THEN "" ELSE outcome, "nil")
        EXCEPT !.fields = FieldsBeforeMsg(m, v, outcome),
               !.late = FieldsAfterMsg(m, v, outcome)]

\* the event of the attempt of this loop index that ended with this outcome:
\* ml.Log().Int("num", i+1), the fields, then Msg
AttemptEvent(m, v, index, outcome) ==
    [Event(m, IF outcome = "success" THEN "request succeed" ELSE "request failed",
           index + 1, IF outcome = "success" THEN "" ELSE outcome, "nil")
        EXCEPT !.fields = FieldsBeforeMsg(m, v, outcome),
               !.late = FieldsAfterMsg(m, v, outcome)]

\* no codec is followed
CodecIdle ==
    /\ proto = "none"
    /\ codecCfg = <<>>
    /\ request = <<>>
    /\ encoded = <<>>
    /\ nonce = <<>>
    /\ rnd = <<>>
    /\ response = <<>>
    /\ validateError = "none"
    /\ cycle = 0
    /\ phase = "idle"

\* no transport call is followed
TransportIdle ==
    /\ httpResponse = <<>>
    /\ maxResponseSize = 0
    /\ postResult = NoResult

\* buildConfig is not followed
ConfigIdle ==
    /\ configFile = <<>>
    /\ givenFlags = <<>>
    /\ out = <<>>
    /\ configPc = "idle"

\* main is not followed
MainIdle ==
    /\ mainPc = "idle"
    /\ exitCode = 0
    /\ osExit = 0
    /\ exitStatus = "none"
    /\ stopError = "nil"
    /\ channels = <<>>
    /\ srvMetrics = <<>>

Init ==
    /\ cfg \in {c \in [Monitors -> Configs] :
                    /\ Cardinality({m \in Monitors : ~c[m].Disabled}) = 1
                    /\ \A m \in Monitors : c[m].Disabled => c[m] = DisabledConfig
                    \* httpConfig has no noncesize
                    /\ c["http"].NonceSize = 0}
    /\ verbose \in BOOLEAN
    /\ ctxErr = FALSE
    /\ caller = [m \in Monitors |-> "main"]
    /\ sch = [m \in Monitors |-> FALSE]
    /\ pc = [m \in Monitors |-> "off"]
    /\ i = [m \in Monitors |-> 0]
    /\ lastError = [m \in Monitors |-> "nil"]
    /\ resultChannel = [m \in Monitors |-> <<>>]
    /\ closes = [m \in Monitors |-> 0]
    /\ dropped = [m \in Monitors |-> FALSE]
    /\ sends = [m \in Monitors |-> 0]
    /\ waits = [m \in Monitors |-> 0]
    /\ observations = [m \in Monitors |-> 0]
    /\ responseErrors = [m \in Monitors |-> [et \in ErrorTypes |-> 0]]
    /\ timer = [m \in Monitors |-> 0]
    /\ panicking = [m \in Monitors |-> FALSE]
    /\ nr = [m \in Monitors |-> NoResult]
    /\ exit = [m \in Monitors |-> "none"]
    /\ log = <<>>
    /\ CodecIdle
    /\ TransportIdle
    /\ ConfigIdle
    /\ MainIdle

\* xMonitorStart up to `go func()`: the channels are made, the goroutine is spawned
MonitorStart(m) ==
    /\ caller[m] = "main"
    /\ ~cfg[m].Disabled
    /\ caller' = [caller EXCEPT ![m] = "sch"]
    /\ pc' = [pc EXCEPT ![m] = "go"]
    /\ UNCHANGED <<otherVars, codecVars, cfg, verbose, ctxErr, sch, i, lastError, resultChannel, closes,
                   dropped, sends, waits, observations, responseErrors, timer,
                   panicking, nr, exit, log>>

\* the goroutine's first statement: close(sch)
WorkerBegin(m) ==
    /\ pc[m] = "go"
    /\ sch' = [sch EXCEPT ![m] = TRUE]
    /\ pc' = [pc EXCEPT ![m] = "loop"]
    /\ UNCHANGED <<otherVars, codecVars, cfg, verbose, ctxErr, caller, i, lastError, resultChannel,
                   closes, dropped, sends, waits, observations, responseErrors,
                   timer, panicking, nr, exit, log>>

\* a faulty start: `<-sch` is missing, the caller does not wait for the goroutine
MonitorStartedNoHandshake(m) ==
    /\ caller[m] = "sch"
    /\ log' = Append(log, Event(m, "start", 0, "", "nil"))
    /\ caller' = [caller EXCEPT ![m] = "returned"]
    /\ UNCHANGED <<otherVars, codecVars, cfg, verbose, ctxErr, sch, pc, i, lastError, resultChannel,
                   closes, dropped, sends, waits, observations, responseErrors,
                   timer, panicking, nr, exit>>

\* xMonitorStart from `<-sch`: the "start" event, then the channel is returned
MonitorStarted(m) ==
    /\ caller[m] = "sch"
    /\ sch[m]
    /\ log' = Append(log, Event(m, "start", 0, "", "nil"))
    /\ caller' = [caller EXCEPT ![m] = "returned"]
    /\ UNCHANGED <<otherVars, codecVars, cfg, verbose, ctxErr, sch, pc, i, lastError, resultChannel,
                   closes, dropped, sends, waits, observations, responseErrors,
                   timer, panicking, nr, exit>>

\* a faulty loop head: the cancellation is reported as the terminal error
LoopHeadCancelIsError(m) ==
    /\ pc[m] = "loop"
    /\ cfg[m].RetryCount = 0 /\ ~ctxErr => i[m] < MaxAttempts
    /\ IF ~LoopCondition(cfg[m].RetryCount, i[m])
       THEN /\ pc' = [pc EXCEPT ![m] = "defer"]
            /\ exit' = [exit EXCEPT ![m] = "count"]
            /\ UNCHANGED lastError
       ELSE IF ctxErr
       THEN /\ pc' = [pc EXCEPT ![m] = "defer"]
            /\ exit' = [exit EXCEPT ![m] = "cancel"]
            /\ lastError' = [lastError EXCEPT ![m] = "ctx"]
       ELSE /\ pc' = [pc EXCEPT ![m] = IF m = "http" THEN "post" ELSE "encode"]
            /\ UNCHANGED <<exit, lastError>>
    /\ UNCHANGED <<otherVars, codecVars, cfg, verbose, ctxErr, caller, sch, i, resultChannel, closes,
                   dropped, sends, waits, observations, responseErrors, timer,
                   panicking, nr, log>>

\* a faulty loop head: `if ctx.Err() != nil { break }` is missing
LoopHeadIgnoresCancel(m) ==
    /\ pc[m] = "loop"
    /\ cfg[m].RetryCount = 0 => i[m] < MaxAttempts
    /\ IF ~LoopCondition(cfg[m].RetryCount, i[m])
       THEN /\ pc' = [pc EXCEPT ![m] = "defer"]
            /\ exit' = [exit EXCEPT ![m] = "count"]
       ELSE /\ pc' = [pc EXCEPT ![m] = IF m = "http" THEN "post" ELSE "encode"]
            /\ UNCHANGED exit
    /\ UNCHANGED <<otherVars, codecVars, cfg, verbose, ctxErr, caller, sch, i, lastError, resultChannel,
                   closes, dropped, sends, waits, observations, responseErrors,
                   timer, panicking, nr, log>>

\* the head of the loop: the loop condition, then `if ctx.Err() != nil { break }`.
\* An endless monitor is followed for MaxAttempts attempts.
LoopHead(m) ==
    /\ pc[m] = "loop"
    /\ cfg[m].RetryCount = 0 /\ ~ctxErr => i[m] < MaxAttempts
    /\ IF ~LoopCondition(cfg[m].RetryCount, i[m])
       THEN /\ pc' = [pc EXCEPT ![m] = "defer"]
            /\ exit' = [exit EXCEPT ![m] = "count"]
       ELSE IF ctxErr
       THEN /\ pc' = [pc EXCEPT ![m] = "defer"]
            /\ exit' = [exit EXCEPT ![m] = "cancel"]
       ELSE /\ pc' = [pc EXCEPT ![m] = IF m = "http" THEN "post" ELSE "encode"]
            /\ UNCHANGED exit
    /\ UNCHANGED <<otherVars, codecVars, cfg, verbose, ctxErr, caller, sch, i, lastError, resultChannel,
                   closes, dropped, sends, waits, observations, responseErrors,
                   timer, panicking, nr, log>>

\* the verbose event of the TSP monitor reads req.Nonce.Bytes(); tspEncodeRequest
\* leaves req.Nonce nil when nonceSize is 0, and Bytes() of a nil *big.Int panics
EventPanics(m) == m = "tsp" /\ verbose /\ cfg[m].NonceSize = 0

\* a faulty encode step: the error is kept and the `break` is missing
EncodeRequestNoBreak(m) ==
    /\ pc[m] = "encode"
    /\ \E encodeError \in EncodeResults(m) :
        /\ lastError' = [lastError EXCEPT ![m] = encodeError]
        /\ pc' = [pc EXCEPT ![m] = "post"]
    /\ UNCHANGED <<otherVars, codecVars, cfg, verbose, ctxErr, caller, sch, i, resultChannel, closes,
                   dropped, sends, waits, observations, responseErrors, timer,
                   panicking, nr, exit, log>>

\* ocspEncodeRequest / tspEncodeRequest, then the attempt's log event is created
EncodeRequest(m) ==
    /\ pc[m] = "encode"
    /\ \E encodeError \in EncodeResults(m) :
        IF encodeError # "nil"
        THEN /\ lastError' = [lastError EXCEPT ![m] = encodeError]
             /\ pc' = [pc EXCEPT ![m] = "defer"]
             /\ exit' = [exit EXCEPT ![m] = "fatal"]
             /\ UNCHANGED panicking
        ELSE IF EventPanics(m)
        THEN /\ panicking' = [panicking EXCEPT ![m] = TRUE]
             /\ pc' = [pc EXCEPT ![m] = "defer"]
             /\ exit' = [exit EXCEPT ![m] = "panic"]
             /\ UNCHANGED lastError
        ELSE /\ pc' = [pc EXCEPT ![m] = "post"]
             /\ UNCHANGED <<lastError, panicking, exit>>
    /\ UNCHANGED <<otherVars, codecVars, cfg, verbose, ctxErr, caller, sch, i, resultChannel, closes,
                   dropped, sends, waits, observations, responseErrors, timer, nr,
                   log>>

\* postRequest / getRequest is called: http.NewRequestWithContext, then client.Do
\* is entered.  A request that cannot be created returns at once.
PostRequest(m) ==
    /\ pc[m] = "post"
    /\ IF cfg[m].URLParses
       THEN /\ sends' = [sends EXCEPT ![m] = @ + 1]
            /\ pc' = [pc EXCEPT ![m] = "do"]
            /\ UNCHANGED nr
       ELSE /\ \E r \in Transport(m, ctxErr, FALSE, cfg[m].MaxResponseSize) :
                    nr' = [nr EXCEPT ![m] = r]
            /\ pc' = [pc EXCEPT ![m] = "returned"]
            /\ UNCHANGED sends
    /\ UNCHANGED <<otherVars, codecVars, cfg, verbose, ctxErr, caller, sch, i, lastError, resultChannel,
                   closes, dropped, waits, observations, responseErrors, timer,
                   panicking, exit, log>>

\* a faulty send: the result is not awaited, the loop goes on to its next attempt
RequestDoneNotAwaited(m) ==
    /\ pc[m] = "do"
    /\ pc' = [pc EXCEPT ![m] = "loop"]
    /\ i' = [i EXCEPT ![m] = @ + 1]
    /\ UNCHANGED <<otherVars, codecVars, cfg, verbose, ctxErr, caller, sch, lastError, resultChannel,
                   closes, dropped, sends, waits, observations, responseErrors,
                   timer, panicking, nr, exit, log>>

\* client.Do and the body read end: postRequest returns
RequestDone(m) ==
    /\ pc[m] = "do"
    /\ \E r \in Transport(m, ctxErr, TRUE, cfg[m].MaxResponseSize) :
            nr' = [nr EXCEPT ![m] = r]
    /\ pc' = [pc EXCEPT ![m] = "returned"]
    /\ UNCHANGED <<otherVars, codecVars, cfg, verbose, ctxErr, caller, sch, i, lastError, resultChannel,
                   closes, dropped, sends, waits, observations, responseErrors,
                   timer, panicking, exit, log>>

\* a faulty counter: every protocol is counted in the series of OCSP
ResponseErrorOneSeries(counters, p, et) ==
    [counters EXCEPT !["ocsp"][et] = @ + 1]

\* metrics.ResponseError: the counter labelled with the protocol and the error
\* type is incremented
ResponseError(counters, p, et) ==
    [counters EXCEPT ![p][et] = @ + 1]

\* a faulty loop body: the duration is observed only when the transport returned
\* no error
AfterRequestObservesOnSuccess(m) ==
    LET r == nr[m]
        outcome == Classify(m, r, ctxErr)
    IN
    /\ pc[m] = "returned"
    /\ nr' = [nr EXCEPT ![m] = NoResult]
    /\ lastError' = [lastError EXCEPT ![m] =
                       IF outcome = "fatal" THEN "create" ELSE @]
    /\ observations' = [observations EXCEPT ![m] =
                          IF outcome = "fatal" \/ r.err # "nil" THEN @ ELSE @ + 1]
    /\ responseErrors' = IF outcome \in ErrorTypes
                         THEN ResponseError(responseErrors, m, outcome)
                         ELSE responseErrors
    /\ log' = IF outcome \in ErrorTypes \cup {"success"}
              THEN Append(log, AttemptEvent(m, verbose, i[m], outcome))
              ELSE log
    /\ IF outcome \in {"fatal", "cancelled"}
       THEN /\ pc' = [pc EXCEPT ![m] = "defer"]
            /\ exit' = [exit EXCEPT ![m] = IF outcome = "fatal" THEN "fatal" ELSE "cancel"]
            /\ UNCHANGED i
       ELSE IF WaitsAfterAttempt(cfg[m].RetryCount, i[m])
       THEN /\ pc' = [pc EXCEPT ![m] = "wait"]
            /\ UNCHANGED <<i, exit>>
       ELSE /\ pc' = [pc EXCEPT ![m] = "loop"]
            /\ i' = [i EXCEPT ![m] = @ + 1]
            /\ UNCHANGED exit
    /\ UNCHANGED <<otherVars, codecVars, cfg, verbose, ctxErr, caller, sch, resultChannel, closes,
                   dropped, sends, waits, timer, panicking>>

\* the loop body from the return of postRequest / getRequest to the end of the
\* attempt: the zero-result test, the duration observation, the classification,
\* the error counter and the attempt's event
AfterRequest(m) ==
    LET r == nr[m]
        outcome == Classify(m, r, ctxErr)
    IN
    /\ pc[m] = "returned"
    /\ nr' = [nr EXCEPT ![m] = NoResult]
    /\ lastError' = [lastError EXCEPT ![m] =
                       IF outcome = "fatal" THEN "create" ELSE @]
    /\ observations' = [observations EXCEPT ![m] =
                          IF outcome = "fatal" THEN @ ELSE @ + 1]
    /\ responseErrors' = IF outcome \in ErrorTypes
                         THEN ResponseError(responseErrors, m, outcome)
                         ELSE responseErrors
    /\ log' = IF outcome \in ErrorTypes \cup {"success"}
              THEN Append(log, AttemptEvent(m, verbose, i[m], outcome))
              ELSE log
    /\ IF outcome \in {"fatal", "cancelled"}
       THEN /\ pc' = [pc EXCEPT ![m] = "defer"]
            /\ exit' = [exit EXCEPT ![m] = IF outcome = "fatal" THEN "fatal" ELSE "cancel"]
            /\ UNCHANGED i
       ELSE IF WaitsAfterAttempt(cfg[m].RetryCount, i[m])
       THEN /\ pc' = [pc EXCEPT ![m] = "wait"]
            /\ UNCHANGED <<i, exit>>
       ELSE /\ pc' = [pc EXCEPT ![m] = "loop"]
            /\ i' = [i EXCEPT ![m] = @ + 1]
            /\ UNCHANGED exit
    /\ UNCHANGED <<otherVars, codecVars, cfg, verbose, ctxErr, caller, sch, resultChannel, closes,
                   dropped, sends, waits, timer, panicking>>

\* a faulty test: the context is not looked at before the timer is made
ReturnsAtOnceZeroOnly(cancelled, timeout) == timeout = 0

\* a faulty select: the case <-ctx.Done() is missing
SelectReadyTimerOnly(cancelled, left) == left = 0

\* waitForTimeout returns at once: ctx.Err() != nil || timeout == 0
ReturnsAtOnce(cancelled, timeout) == cancelled \/ timeout = 0

\* the select of waitForTimeout is ready: <-tm.C or <-ctx.Done()
SelectReady(cancelled, left) == left = 0 \/ cancelled

\* waitForTimeout is called
waitForTimeout(m) ==
    /\ pc[m] = "wait"
    /\ waits' = [waits EXCEPT ![m] = @ + 1]
    /\ IF ReturnsAtOnce(ctxErr, cfg[m].RetryIntervalValue)
       THEN /\ pc' = [pc EXCEPT ![m] = "loop"]
            /\ i' = [i EXCEPT ![m] = @ + 1]
            /\ UNCHANGED timer
       ELSE /\ pc' = [pc EXCEPT ![m] = "select"]
            /\ timer' = [timer EXCEPT ![m] = cfg[m].RetryIntervalValue]
            /\ UNCHANGED i
    /\ UNCHANGED <<otherVars, codecVars, cfg, verbose, ctxErr, caller, sch, lastError, resultChannel,
                   closes, dropped, sends, observations, responseErrors, panicking,
                   nr, exit, log>>

\* time passes for a running timer
Tick(m) ==
    /\ pc[m] = "select"
    /\ timer[m] > 0
    /\ timer' = [timer EXCEPT ![m] = @ - 1]
    /\ UNCHANGED <<otherVars, codecVars, cfg, verbose, ctxErr, caller, sch, pc, i, lastError,
                   resultChannel, closes, dropped, sends, waits, observations,
                   responseErrors, panicking, nr, exit, log>>

\* the select of waitForTimeout returns, tm.Stop(), the loop's i++
WaitReturns(m) ==
    /\ pc[m] = "select"
    /\ SelectReady(ctxErr, timer[m])
    /\ timer' = [timer EXCEPT ![m] = 0]
    /\ pc' = [pc EXCEPT ![m] = "loop"]
    /\ i' = [i EXCEPT ![m] = @ + 1]
    /\ UNCHANGED <<otherVars, codecVars, cfg, verbose, ctxErr, caller, sch, lastError, resultChannel,
                   closes, dropped, sends, waits, observations, responseErrors,
                   panicking, nr, exit, log>>

\* the deferred function, first part: the non-blocking send of lastError
DeferSend(m) ==
    /\ pc[m] = "defer"
    /\ IF lastError[m] = "nil"
       THEN UNCHANGED <<resultChannel, dropped>>
       ELSE IF Len(resultChannel[m]) < ChannelCapacity
       THEN /\ resultChannel' = [resultChannel EXCEPT ![m] = Append(@, lastError[m])]
            /\ UNCHANGED dropped
       ELSE /\ dropped' = [dropped EXCEPT ![m] = TRUE]
            /\ UNCHANGED resultChannel
    /\ pc' = [pc EXCEPT ![m] = "stop"]
    /\ UNCHANGED <<otherVars, codecVars, cfg, verbose, ctxErr, caller, sch, i, lastError, closes, sends,
                   waits, observations, responseErrors, timer, panicking, nr, exit,
                   log>>

\* a faulty deferred function: "stop" is logged only with a terminal error
DeferStopOnErrorOnly(m) ==
    /\ pc[m] = "stop"
    /\ log' = IF lastError[m] = "nil" THEN log
              ELSE Append(log, Event(m, "stop", 0, "", lastError[m]))
    /\ pc' = [pc EXCEPT ![m] = "close"]
    /\ UNCHANGED <<otherVars, codecVars, cfg, verbose, ctxErr, caller, sch, i, lastError, resultChannel,
                   closes, dropped, sends, waits, observations, responseErrors,
                   timer, panicking, nr, exit>>

\* the deferred function, second part: le.Msg("stop")
DeferStop(m) ==
    /\ pc[m] = "stop"
    /\ log' = Append(log, Event(m, "stop", 0, "", lastError[m]))
    /\ pc' = [pc EXCEPT ![m] = "close"]
    /\ UNCHANGED <<otherVars, codecVars, cfg, verbose, ctxErr, caller, sch, i, lastError, resultChannel,
                   closes, dropped, sends, waits, observations, responseErrors,
                   timer, panicking, nr, exit>>

\* the deferred function, last part: close(resultChannel); a panicking goroutine
\* then takes the process down
DeferClose(m) ==
    /\ pc[m] = "close"
    /\ closes' = [closes EXCEPT ![m] = @ + 1]
    /\ pc' = [pc EXCEPT ![m] = IF panicking[m] THEN "panic" ELSE "done"]
    /\ UNCHANGED <<otherVars, codecVars, cfg, verbose, ctxErr, caller, sch, i, lastError, resultChannel,
                   dropped, sends, waits, observations, responseErrors, timer,
                   panicking, nr, exit, log>>

\* the operator's interrupt: main's `case <-osChannel: exitCtxCancel()`
Cancel ==
    /\ ~ctxErr
    /\ ctxErr' = TRUE
    /\ UNCHANGED <<otherVars, codecVars, cfg, verbose, caller, sch, pc, i, lastError, resultChannel,
                   closes, dropped, sends, waits, observations, responseErrors,
                   timer, panicking, nr, exit, log>>

\* one step of the worker goroutine of monitor m
Worker(m) ==
    \/ WorkerBegin(m)
    \/ LoopHead(m)
    \/ EncodeRequest(m)
    \/ PostRequest(m)
    \/ RequestDone(m)
    \/ AfterRequest(m)
    \/ waitForTimeout(m)
    \/ WaitReturns(m)
    \/ DeferSend(m)
    \/ DeferStop(m)
    \/ DeferClose(m)

Next ==
    \/ Cancel
    \/ \E m \in Monitors :
        \/ MonitorStart(m)
        \/ MonitorStarted(m)
        \/ Tick(m)
        \/ Worker(m)

Spec == Init /\ [][Next]_vars

\* the goroutines are scheduled fairly, and a request that is in flight returns
\* (it is cancelled with the context or cut off by the client's timeout); nothing
\* is assumed of the operator or of the passing of time
FairSpec == Spec /\ \A m \in Monitors : WF_vars(Worker(m))

\* ------------------------------------------------------------------- claims

Min(a, b) == IF a < b THEN a ELSE b

\* the events of monitor m with one of these messages
EventsOf(m, msgs) == {k \in 1..Len(log) : log[k].protocol = m /\ log[k].msg \in msgs}

StopEvents(m) == Cardinality(EventsOf(m, {"stop"}))

\* the attempts of monitor m that were processed to an outcome
Completed(m) == i[m] + (IF pc[m] \in {"wait", "select"} THEN 1 ELSE 0)

\* a request of monitor m was sent and its result is not processed yet
InFlight(m) == pc[m] = "do" \/ (pc[m] = "returned" /\ ~RequestNotCreated(nr[m].nr))

\* the worker has left its loop
LeftLoop(m) == pc[m] \in {"defer", "stop", "close", "done", "panic"}

\* C1: a monitor with retryCount = N > 0 whose attempts all end in a network
\* error, the context never cancelled, makes one send per attempt and never more
\* than N, calls waitForTimeout after each of the first N-1 attempts and not after
\* the N-th, and ends with resultChannel closed and empty and no terminal error.
C1_BoundedRetryOnNetworkErrors ==
    \A m \in Monitors :
        LET N == cfg[m].RetryCount IN
        (/\ N > 0
         /\ ~ctxErr
         /\ exit[m] \in {"none", "count"}
         /\ responseErrors[m][responseErrorNet] = Completed(m))
        =>
        /\ sends[m] = Completed(m) + (IF InFlight(m) THEN 1 ELSE 0)
        /\ sends[m] <= N
        /\ waits[m] = Min(i[m], N - 1) + (IF pc[m] = "select" THEN 1 ELSE 0)
        /\ LeftLoop(m) => sends[m] = N /\ waits[m] = N - 1 /\ lastError[m] = "nil"
        /\ pc[m] = "done" =>
            /\ closes[m] = 1
            /\ resultChannel[m] = <<>>
            /\ \A k \in EventsOf(m, {"stop"}) : log[k].err = "nil"

C1_Witness ==
    \E m \in Monitors :
        /\ cfg[m].RetryCount = 2
        /\ ~ctxErr
        /\ pc[m] = "done"
        /\ responseErrors[m][responseErrorNet] = 2
        /\ sends[m] = 2
        /\ waits[m] = 1

\* C2: an endless monitor (retryCount = 0) goes on to a retry wait after every
\* processed attempt and leaves its loop without a terminal error only once the
\* context is cancelled.
C2_EndlessMonitorStopsOnlyOnCancel ==
    \A m \in Monitors :
        cfg[m].RetryCount = 0 =>
            /\ exit[m] # "count"
            /\ LeftLoop(m) /\ lastError[m] = "nil" => ctxErr

\* C3: a worker emits at most one "stop" event and closes resultChannel at most
\* once; once it has ended, on any exit path, it has done each exactly once; and
\* nothing is sent on a closed resultChannel.
C3_OneStopOneClose ==
    /\ [](\A m \in Monitors :
            /\ StopEvents(m) <= 1
            /\ closes[m] <= 1
            /\ closes[m] = 1 => StopEvents(m) = 1
            /\ pc[m] \in {"done", "panic"} => StopEvents(m) = 1 /\ closes[m] = 1
            /\ exit[m] # "none" <=> LeftLoop(m))
    /\ [][\A m \in Monitors :
            closes[m] > 0 => Len(resultChannel'[m]) <= Len(resultChannel[m])]_vars

C3_Witness ==
    \E m \in Monitors :
        /\ pc[m] = "done"
        /\ exit[m] = "fatal"
        /\ StopEvents(m) = 1
        /\ closes[m] = 1
        /\ resultChannel[m] # <<>>

C5_EncodeFailureStopsAtOnce ==
    \A m \in Monitors :
        /\ ~dropped[m]
        /\ lastError[m] = "encode" =>
            /\ LeftLoop(m) /\ pc[m] # "panic"
            /\ sends[m] = i[m]
            /\ observations[m] = i[m]
            /\ waits[m] = i[m]
            /\ Cardinality(EventsOf(m, {"request failed", "request succeed"})) = i[m]
            /\ pc[m] = "defer" => resultChannel[m] = <<>> /\ closes[m] = 0
            /\ pc[m] \in {"stop", "close"} => resultChannel[m] = <<"encode">> /\ closes[m] = 0
            /\ pc[m] = "done" => resultChannel[m] = <<"encode">> /\ closes[m] = 1

C5_Witness ==
    \E m \in Monitors :
        /\ lastError[m] = "encode"
        /\ i[m] = 1
        /\ pc[m] = "done"
        /\ resultChannel[m] = <<"encode">>
        /\ sends[m] = 1

\* C6: a monitor that ends because it saw the cancellation, wherever the
\* cancellation landed, has no terminal error: nothing is put on resultChannel,
\* the "stop" event carries no error, and the channel is closed empty.
C6_CancellationDeliversNoError ==
    \A m \in Monitors :
        exit[m] = "cancel" =>
            /\ ctxErr
            /\ lastError[m] = "nil"
            /\ resultChannel[m] = <<>>
            /\ \A k \in EventsOf(m, {"stop"}) : log[k].err = "nil"
            /\ pc[m] = "done" => closes[m] = 1

C6_Witness ==
    \E m \in Monitors :
        /\ exit[m] = "cancel"
        /\ pc[m] = "done"
        /\ closes[m] = 1
        /\ StopEvents(m) = 1
        /\ i[m] = 1
        /\ sends[m] = 1

\* C7: with the goroutines scheduled fairly, once the context is cancelled a
\* state is reached in which every monitor that was started has closed its
\* resultChannel, whatever its retry count and retry interval.
C7_CancelledMonitorsTerminate ==
    ctxErr ~> (\A m \in Monitors : pc[m] = "off" \/ closes[m] = 1)

C7_Witness ==
    \E m \in Monitors :
        /\ ctxErr
        /\ cfg[m].RetryCount = 0
        /\ cfg[m].RetryIntervalValue = MaxInterval
        /\ waits[m] > 0
        /\ closes[m] = 1

\* C8: waitForTimeout returns without waiting exactly when the context is already
\* cancelled or the interval is 0; otherwise it waits in its select, which does
\* not return before the interval has elapsed or the context is cancelled and
\* can return as soon as one of the two holds.
C8_WaitReturnsWhenDue ==
    /\ [](\A m \in Monitors :
            pc[m] = "select" /\ (timer[m] = 0 \/ ctxErr) => ENABLED WaitReturns(m))
    /\ [][\A m \in Monitors :
            pc[m] = "wait" /\ pc'[m] # "wait" =>
                /\ pc'[m] \in {"loop", "select"}
                /\ pc'[m] = "loop" <=> (ctxErr \/ cfg[m].RetryIntervalValue = 0)
                /\ pc'[m] = "select" => timer'[m] = cfg[m].RetryIntervalValue]_vars
    /\ [][\A m \in Monitors :
            pc[m] = "select" /\ pc'[m] # "select" =>
                /\ timer[m] = 0 \/ ctxErr
                /\ pc'[m] = "loop"]_vars

C8_Witness ==
    \E m \in Monitors :
        /\ pc[m] = "select"
        /\ timer[m] = MaxInterval
        /\ ctxErr

\* the step in which monitor m processes what its transport call returned
Processes(m) == pc[m] = "returned" /\ pc'[m] # "returned"

\* the outcome the priority order gives to a result
PriorityOutcome(m, r) ==
    IF r.err # "nil" THEN "net"
    ELSE IF r.nr.StatusCode \notin 200..299 THEN "http"
    ELSE IF m # "http" /\ r.nr.Body.kind = "garbage" THEN "asn1"
    ELSE IF m # "http" /\ r.nr.Body.kind = "invalid" THEN "contents"
    ELSE "success"

\* the step records exactly the given outcome: its event, and its counter if it
\* is a failure
Recorded(m, outcome) ==
    /\ \A et \in ErrorTypes :
        responseErrors'[m][et] = responseErrors[m][et] + (IF et = outcome THEN 1 ELSE 0)
    /\ Len(log') = Len(log) + 1
    /\ LET e == log'[Len(log')] IN
        /\ e.protocol = m
        /\ e.num = i[m] + 1
        /\ e.msg = IF outcome = "success" THEN "request succeed" ELSE "request failed"
        /\ e.errorType = IF outcome = "success" THEN "" ELSE outcome
    /\ lastError'[m] = lastError[m]
    /\ ~LeftLoop(m)'

\* the step records nothing and leaves the loop without a terminal error
LeavesSilently(m) ==
    /\ responseErrors' = responseErrors
    /\ log' = log
    /\ lastError'[m] = "nil"
    /\ pc'[m] = "defer"

\* the step leaves the loop with the terminal error, no counter and no event
LeavesWithError(m) ==
    /\ responseErrors' = responseErrors
    /\ log' = log
    /\ lastError'[m] # "nil"
    /\ pc'[m] = "defer"

\* C9 as claimed: every result of a transport call that is not a cancellation
\* is recorded as exactly one outcome, by the priority net, http, asn1, contents,
\* success.
C9_EveryResultRecordedByPriority ==
    [][\A m \in Monitors :
        Processes(m) /\ ~(ctxErr /\ ErrorsIsCtxErr(nr[m].err)) =>
            Recorded(m, PriorityOutcome(m, nr[m]))]_vars

\* C9, amended: every result of a transport call that is not a cancellation and
\* not the zero result of a request that could not be created is recorded as
\* exactly one outcome, by the priority net, http, asn1, contents, success: one
\* event, and for a failure its error counter and no other incremented by 1.
\* The zero result ends the monitor with a terminal error and records nothing.
C9_CreatedRequestRecordedByPriority ==
    [][\A m \in Monitors :
        Processes(m) =>
            IF RequestNotCreated(nr[m].nr)
            THEN LeavesWithError(m)
            ELSE ~(ctxErr /\ ErrorsIsCtxErr(nr[m].err)) =>
                    Recorded(m, PriorityOutcome(m, nr[m]))]_vars

C9_Witness ==
    \E m \in Monitors :
        /\ responseErrors[m][responseErrorHTTP] = 1
        /\ responseErrors[m][responseErrorContents] = 1
        /\ Cardinality(EventsOf(m, {"request failed"})) = 2
        /\ sends[m] = 2

\* C10 as claimed: a transport error met with the context cancelled makes the
\* monitor leave silently when it matches the context's error, and is counted as
\* "net" when it does not.
C10_CancellationToldFromNetError ==
    [][\A m \in Monitors :
        Processes(m) /\ ctxErr /\ nr[m].err # "nil" =>
            IF ErrorsIsCtxErr(nr[m].err)
            THEN LeavesSilently(m)
            ELSE Recorded(m, responseErrorNet)]_vars

\* C10, amended: a transport error met with the context cancelled makes the
\* monitor leave silently when it matches the context's error; when it does not
\* it is counted as "net", unless it is the error of a request that could not be
\* created (the zero result), which ends the monitor with a terminal error.
C10_CancellationToldFromSentRequestError ==
    [][\A m \in Monitors :
        Processes(m) /\ ctxErr /\ nr[m].err # "nil" =>
            IF RequestNotCreated(nr[m].nr)
            THEN LeavesWithError(m)
            ELSE IF ErrorsIsCtxErr(nr[m].err)
            THEN LeavesSilently(m)
            ELSE Recorded(m, responseErrorNet)]_vars

C10_Witness ==
    \E m \in Monitors :
        /\ ctxErr
        /\ exit[m] = "cancel"
        /\ pc[m] = "defer"
        /\ sends[m] = i[m] + 1
        /\ observations[m] = sends[m]
        /\ responseErrors[m][responseErrorNet] = i[m]
        /\ i[m] > 0

\* the attempts of monitor m whose outcome was logged
RequestEvents(m) == Cardinality(EventsOf(m, {"request failed", "request succeed"}))

\* the error counters of monitor m, summed
ErrorCount(m) ==
    responseErrors[m][responseErrorNet] + responseErrors[m][responseErrorHTTP]
    + responseErrors[m][responseErrorAsn] + responseErrors[m][responseErrorContents]

\* C11: the attempts of a monitor are sequential.  When attempt i+1 is at its
\* build or its send, the i attempts before it have each been observed, counted
\* and logged; a transport call is entered only when every earlier call has
\* returned and been processed, so at most one call of a monitor is in flight.
C11_AttemptsAreSequential ==
    /\ [](\A m \in Monitors :
            /\ pc[m] \in {"loop", "encode", "post", "do"} =>
                /\ observations[m] = i[m]
                /\ RequestEvents(m) = i[m]
                /\ ErrorCount(m) + Cardinality(EventsOf(m, {"request succeed"})) = i[m]
                /\ \A k \in EventsOf(m, {"request failed", "request succeed"}) :
                        log[k].num <= i[m]
            /\ sends[m] - observations[m] = (IF InFlight(m) THEN 1 ELSE 0)
            /\ nr[m] # NoResult <=> pc[m] = "returned")
    /\ [][\A m \in Monitors :
            sends'[m] # sends[m] =>
                /\ sends'[m] = sends[m] + 1
                /\ sends[m] = observations[m]
                /\ ~InFlight(m)]_vars

C11_Witness ==
    \E m \in Monitors :
        /\ pc[m] = "do"
        /\ i[m] = 1
        /\ sends[m] = 2
        /\ observations[m] = 1
        /\ RequestEvents(m) = 1

\* C12 as claimed: every call of the transport is followed by exactly one
\* duration observation of the monitor's protocol, whatever the call returned.
C12_EveryTransportCallObserved ==
    [][\A m \in Monitors :
        Processes(m) =>
            /\ observations'[m] = observations[m] + 1
            /\ \A o \in Monitors \ {m} : observations'[o] = observations[o]]_vars

\* C12, amended: every call of the transport whose HTTP request could be created
\* (the result is not the zero result) is followed by exactly one duration
\* observation of the monitor's protocol and of no other, whatever the send ended
\* with: success, network error, status outside 2xx, decode or validation failure,
\* or cancellation while in flight.  A call that could not create its request is
\* not observed.
C12_EverySentRequestObserved ==
    [][\A m \in Monitors :
        Processes(m) =>
            /\ observations'[m] =
                    observations[m] + (IF RequestNotCreated(nr[m].nr) THEN 0 ELSE 1)
            /\ \A o \in Monitors \ {m} : observations'[o] = observations[o]]_vars

C12_Witness ==
    \E m \in Monitors :
        /\ exit[m] = "cancel"
        /\ pc[m] = "done"
        /\ sends[m] = 2
        /\ observations[m] = 2
        /\ RequestEvents(m) = 1
        /\ i[m] = 1

\* the "start" events of monitor m
StartEvents(m) == Cardinality(EventsOf(m, {"start"}))

\* C13: a monitor is started synchronously.  Its "start" event is emitted, and
\* its result channel returned, only after the worker goroutine has closed the
\* readiness channel; the event is emitted once, before the start function
\* returns.
C13_StartIsSynchronous ==
    /\ [](\A m \in Monitors :
            /\ StartEvents(m) = (IF caller[m] = "returned" THEN 1 ELSE 0)
            /\ caller[m] = "returned" => sch[m] /\ pc[m] \notin {"off", "go"}
            /\ sch[m] <=> pc[m] \notin {"off", "go"})
    /\ [][\A m \in Monitors :
            caller'[m] # caller[m] /\ caller'[m] = "returned" =>
                /\ sch[m]
                /\ caller[m] = "sch"
                /\ log' = Append(log, Event(m, "start", 0, "", "nil"))]_vars

C13_Witness ==
    \E m \in Monitors :
        /\ caller[m] = "returned"
        /\ StartEvents(m) = 1
        /\ pc[m] = "loop"
        /\ i[m] = 0
        /\ log = <<Event(m, "start", 0, "", "nil")>>


\* C34: in verbose mode the event of a successful attempt carries the status
\* code and the content type, in every monitor: the fields are on the event when
\* it is emitted, and no field is added to an event after it has been emitted.
C34_VerboseSuccessCarriesStatusFields ==
    \A k \in 1..Len(log) :
        /\ log[k].late = {}
        /\ verbose /\ log[k].msg = "request succeed" => StatusFields \subseteq log[k].fields


\* C35: in the log the "start" event of a monitor precedes every per-attempt
\* event and the "stop" event of that monitor, however the starting caller and
\* the worker goroutine interleave.
C35_StartPrecedesTheWorkersEvents ==
    \A m \in Monitors :
        \A k \in EventsOf(m, {"request failed", "request succeed", "stop"}) :
            \E j \in EventsOf(m, {"start"}) : j < k


\* the largest number of client.Do calls of one monitor within the bounds
MaxSends == IF MaxRetryCount > MaxAttempts THEN MaxRetryCount ELSE MaxAttempts

\* C36: once the shared context is cancelled, a monitor makes at most one more
\* transport send (that of the attempt that had already passed the loop head)
\* and begins no retry wait of non-zero length: no timer is armed, and a
\* waitForTimeout called after the cancellation returns at once.
C36_CancelStopsSendsAndWaits ==
    /\ \A m \in Monitors : \A n \in 0..MaxSends :
            [](ctxErr /\ sends[m] = n => [](sends[m] <= n + 1))
    /\ [][ctxErr => \A m \in Monitors :
                    /\ timer'[m] <= timer[m]
                    /\ sends'[m] # sends[m] => pc[m] \in {"encode", "post"}
                    /\ waits'[m] # waits[m] => pc'[m] = "loop" /\ i'[m] = i[m] + 1]_vars

\* a cancelled monitor has left its loop at the loop head after a send and a
\* call of waitForTimeout with a non-zero interval
C36_Witness ==
    \E m \in Monitors :
        /\ ctxErr
        /\ exit[m] = "cancel"
        /\ pc[m] = "done"
        /\ cfg[m].RetryIntervalValue > 0
        /\ sends[m] >= 1
        /\ waits[m] >= 1
        /\ timer[m] = 0


\* C38: under every valid configuration, nonce size 0 with verbose logging
\* included, no attempt of a monitor crashes its worker: the verbose event reads
\* the request's nonce only when one was generated, so no worker unwinds a
\* run-time panic and a worker that ends has ended by returning.
C38_NoAttemptCrashesTheWorker ==
    \A m \in Monitors :
        /\ ~panicking[m]
        /\ pc[m] # "panic"
        /\ exit[m] # "panic"


\* the attempts of monitor m that were processed to an outcome: the attempts
\* before index i, and the one of index i once its event is out and the loop is
\* in its retry wait
Processed(m) == i[m] + (IF pc[m] \in {"wait", "select"} THEN 1 ELSE 0)

\* C39: at every point of a monitor's run the attempts processed to an outcome
\* are as many as its "request succeed" events plus the increments of its four
\* error counters; each of them emitted exactly one per-attempt event, tagged
\* with index + 1, and the numbers of the emitted events increase strictly.
C39_OneNumberedEventPerProcessedAttempt ==
    /\ [](\A m \in Monitors :
            /\ Processed(m) = Cardinality(EventsOf(m, {"request succeed"})) + ErrorCount(m)
            /\ Processed(m) = RequestEvents(m)
            /\ ErrorCount(m) = Cardinality(EventsOf(m, {"request failed"}))
            /\ \A j, k \in EventsOf(m, {"request failed", "request succeed"}) :
                    j < k => log[j].num < log[k].num)
    /\ [][\A m \in Monitors :
            Processed(m)' # Processed(m) =>
                /\ Processed(m)' = Processed(m) + 1
                /\ Len(log') = Len(log) + 1
                /\ log'[Len(log')].protocol = m
                /\ log'[Len(log')].msg \in {"request failed", "request succeed"}
                /\ log'[Len(log')].num = i[m] + 1
                /\ ErrorCount(m)' = ErrorCount(m)
                        + (IF log'[Len(log')].msg = "request failed" THEN 1 ELSE 0)]_vars

\* two attempts were processed, one counted as an error and one succeeded
C39_Witness ==
    \E m \in Monitors :
        /\ Processed(m) = 2
        /\ ErrorCount(m) = 1
        /\ \E j, k \in EventsOf(m, {"request failed", "request succeed"}) :
                /\ j < k
                /\ log[j].msg = "request failed" /\ log[j].num = 1
                /\ log[k].msg = "request succeed" /\ log[k].num = 2


\* ------------------------------------------------------------------- codec

\* the longest nonce random() is asked for
MaxNonceSize == 1

\* the most status entries of a BasicOCSPResponse
MaxEntries == 2

\* the most extensions of a BasicOCSPResponse
MaxExtensions == 2

\* the most signer infos of a TimeStampToken
MaxSigners == 2

\* the values of one byte
Octets == {0, 1}

\* the byte strings of length n
OctetStrings(n) == [1..n -> Octets]

\* the sequences over S of length at most n
SeqsUpTo(S, n) == UNION {[1..k -> S] : k \in 0..n}

TagOctetString == 4

TagSequence == 48

\* asn1.Marshal of a []byte: tag, length, contents
OctetString(b) == <<TagOctetString, Len(b)>> \o b

\* asn1.Unmarshal into a []byte: the contents of a well-formed OCTET STRING
UnwrapOctetString(der) ==
    IF Len(der) >= 2 /\ der[1] = TagOctetString /\ der[2] = Len(der) - 2
    THEN SubSeq(der, 3, Len(der))
    ELSE <<>>

oidOCSPNonceExtension == "1.3.6.1.5.5.7.48.1.2"

oidOCSPBasicResponse == "1.3.6.1.5.5.7.48.1.1"

\* an OID that is neither of the two
oidOther == "1.3.6.1.5.5.7.48.1.4"

\* the serial numbers of the certificates a status is asked or given for
Serials == {1, 2}

\* asn1.Marshal of an ocspCertID; the hashes are those of one issuer
MarshalCertID(serial) == <<TagSequence, 1, serial>>

\* the nonce values ocspEncodeRequest returns for nonceSize = n
OCSPNonces(n) == IF n = 0 THEN {<<>>} ELSE {OctetString(b) : b \in OctetStrings(n)}

\* request.TBSRequest.RequestExtensions as ocspEncodeRequest leaves it
NonceExtensions(sent) ==
    IF Len(sent) = 0
    THEN <<>>
    ELSE <<[Id |-> oidOCSPNonceExtension, Critical |-> FALSE, Value |-> sent]>>

\* the ocspRequest: its one ocspSingleRequest and the request extensions
ocspRequest(serial, raw, sent) ==
    [ReqCert |-> [Raw |-> raw, SerialNumber |-> serial],
     RequestExtensions |-> NonceExtensions(sent)]

\* the extensions a decoded response may carry
Extensions ==
    [Id : {oidOCSPNonceExtension, oidOther},
     Critical : {FALSE},
     Value : OCSPNonces(MaxNonceSize)]

\* ocspResponseBytes.Response that is no BasicOCSPResponse
NoBasicResponse == [Responses |-> <<>>, Extensions |-> <<>>]

\* the decoded ocspResponse; Response is given by what it decodes to
ocspResponses ==
    [ResponseStatus : {0, 1},
     ResponseType : {oidOCSPBasicResponse, oidOther},
     Response : {"empty", "garbage"},
     Basic : {NoBasicResponse}]
    \cup
    [ResponseStatus : {0, 1},
     ResponseType : {oidOCSPBasicResponse, oidOther},
     Response : {"basic"},
     Basic : [Responses : SeqsUpTo({MarshalCertID(s) : s \in Serials}, MaxEntries),
              Extensions : SeqsUpTo(Extensions, MaxExtensions)]]

\* the indexes of the extensions with the nonce OID
NonceIndexes(exts) == {k \in 1..Len(exts) : exts[k].Id = oidOCSPNonceExtension}

\* the least index of a set of indexes
First(S) == CHOOSE k \in S : \A j \in S : k <= j

\* the nonce check reports a value other than the sent one in any nonce extension
NonceCheckAnyMismatch(exts, sent) ==
    IF NonceIndexes(exts) = {}
    THEN "nonce not found in OCSP response"
    ELSE IF \E k \in NonceIndexes(exts) : exts[k].Value # sent
         THEN "OCSP response nonce mismatch"
         ELSE "nil"

\* the loop over the extensions: it ends at the first one with the nonce OID
NonceCheck(exts, sent) ==
    IF NonceIndexes(exts) = {}
    THEN "nonce not found in OCSP response"
    ELSE IF exts[First(NonceIndexes(exts))].Value # sent
         THEN "OCSP response nonce mismatch"
         ELSE "nil"

\* the validator without the search for the CertID of the request
ocspResponseValidateAnyCertID(resp, req, sent) ==
    IF resp.ResponseStatus # 0
    THEN "invalid OCSP ResponseStatus"
    ELSE IF resp.ResponseType # oidOCSPBasicResponse
    THEN "invalid OCSP ResponseType"
    ELSE IF resp.Response = "empty"
    THEN "empty OCSP BasicResponse"
    ELSE IF resp.Response # "basic"
    THEN "failed to decode OCSP BasicRespons"
    ELSE IF Len(sent) > 0
    THEN NonceCheck(resp.Basic.Extensions, sent)
    ELSE "nil"

\* the validator looking at the response type before the response status
ocspResponseValidateTypeFirst(resp, req, sent) ==
    IF resp.ResponseType # oidOCSPBasicResponse
    THEN "invalid OCSP ResponseType"
    ELSE IF resp.ResponseStatus # 0
    THEN "invalid OCSP ResponseStatus"
    ELSE IF resp.Response = "empty"
    THEN "empty OCSP BasicResponse"
    ELSE IF resp.Response # "basic"
    THEN "failed to decode OCSP BasicRespons"
    ELSE IF \A k \in 1..Len(resp.Basic.Responses) :
                resp.Basic.Responses[k] # req.ReqCert.Raw
    THEN "no status info for certificate in OCSP response"
    ELSE IF Len(sent) > 0
    THEN NonceCheck(resp.Basic.Extensions, sent)
    ELSE "nil"

ocspResponseValidate(resp, req, sent) ==
    IF resp.ResponseStatus # 0
    THEN "invalid OCSP ResponseStatus"
    ELSE IF resp.ResponseType # oidOCSPBasicResponse
    THEN "invalid OCSP ResponseType"
    ELSE IF resp.Response = "empty"
    THEN "empty OCSP BasicResponse"
    ELSE IF resp.Response # "basic"
    THEN "failed to decode OCSP BasicRespons"
    ELSE IF \A k \in 1..Len(resp.Basic.Responses) :
                resp.Basic.Responses[k] # req.ReqCert.Raw
    THEN "no status info for certificate in OCSP response"
    ELSE IF Len(sent) > 0
    THEN NonceCheck(resp.Basic.Extensions, sent)
    ELSE "nil"


\* the longest digest of a MessageImprint
MaxDigestSize == 1

oidTSPCmsSignedData == "1.2.840.113549.1.7.2"

oidTSPTimeStampTokenContent == "1.2.840.113549.1.9.16.1.4"

tspResponseStatusGranted == 0

tspResponseStatusGrantedWithMods == 1

\* cfg.Policy, the policy the request template asks for
configuredPolicy == "1.2.398.3.3.2.6.1"

\* the digests: cfg.DigestValue or what random(digestSize) returns
Digests == OctetStrings(MaxDigestSize)

RECURSIVE BigInt(_)
\* new(big.Int).SetBytes(b): b read as a big-endian unsigned number
BigInt(b) ==
    IF Len(b) = 0 THEN 0 ELSE BigInt(SubSeq(b, 1, Len(b) - 1)) * 256 + b[Len(b)]

\* request.Nonce and TSTInfo.nonce: <<>> is the nil pointer, <<v>> points to v
TSPNonces(n) == IF n = 0 THEN {<<>>} ELSE {<<BigInt(b)>> : b \in OctetStrings(n)}

\* the canonical encoding of a tspMessageImprint with this HashedMessage; the
\* HashAlgorithm is that of the configuration
CanonicalImprint(hashed) == <<TagSequence, Len(hashed) + 2>> \o OctetString(hashed)

\* asn1.Marshal of a tspMessageImprint: a non-empty Raw is written as it is and
\* the fields after it are not read
MarshalMessageImprint(imprint) ==
    IF Len(imprint.Raw) > 0 THEN imprint.Raw ELSE CanonicalImprint(imprint.HashedMessage)

\* the tspRequest
tspRequest(raw, hashed, n) ==
    [Version |-> 1,
     MessageImprint |-> [Raw |-> raw, HashAlgorithm |-> "cfg.DigestOIDValue",
                         HashedMessage |-> hashed],
     ReqPolicy |-> configuredPolicy,
     Nonce |-> n,
     CertReq |-> TRUE]

\* EContent that is no TSTInfo
NoTSTInfo == [Policy |-> oidOther, MessageImprint |-> <<>>, Nonce |-> <<>>]

\* the decoded tspResp; EContent is given by what it decodes to
tspResponses ==
    [Status : {tspResponseStatusGranted, tspResponseStatusGrantedWithMods, 2},
     ContentType : {oidTSPCmsSignedData, oidOther},
     SignerInfos : 0..MaxSigners,
     EContentType : {oidTSPTimeStampTokenContent, oidOther},
     EContent : {"empty", "garbage"},
     TSTInfo : {NoTSTInfo}]
    \cup
    [Status : {tspResponseStatusGranted, tspResponseStatusGrantedWithMods, 2},
     ContentType : {oidTSPCmsSignedData, oidOther},
     SignerInfos : 0..MaxSigners,
     EContentType : {oidTSPTimeStampTokenContent, oidOther},
     EContent : {"tstinfo"},
     TSTInfo : [Policy : {configuredPolicy, oidOther},
                MessageImprint : {CanonicalImprint(d) : d \in Digests},
                Nonce : TSPNonces(0) \cup TSPNonces(MaxNonceSize)]]

\* the validator taking a response without a nonce for one with the nonce sent
tspResponseValidateNilNonceAccepted(resp, req) ==
    IF resp.Status # tspResponseStatusGranted /\ resp.Status # tspResponseStatusGrantedWithMods
    THEN "invalid TSP response Status"
    ELSE IF resp.ContentType # oidTSPCmsSignedData
    THEN "invalid TSP TimeStampToken OID"
    ELSE IF resp.SignerInfos # 1
    THEN "single signature under TSP TimeStampToken expected"
    ELSE IF resp.EContentType # oidTSPTimeStampTokenContent
    THEN "invalid TSP EncapContentInfo OID"
    ELSE IF resp.EContent = "empty"
    THEN "invalid TSP TSTInfo encoded size"
    ELSE IF resp.EContent # "tstinfo"
    THEN "failed to decode TSTInfo"
    ELSE IF resp.TSTInfo.Policy # req.ReqPolicy
    THEN "TSP policy OID mismatch"
    ELSE IF resp.TSTInfo.MessageImprint # req.MessageImprint.Raw
    THEN "TSP MessageImprint mismatch"
    ELSE IF req.Nonce # <<>> /\ resp.TSTInfo.Nonce # <<>>
                /\ resp.TSTInfo.Nonce[1] # req.Nonce[1]
    THEN "TSP nonce mismatch"
    ELSE "nil"

tspResponseValidate(resp, req) ==
    IF resp.Status # tspResponseStatusGranted /\ resp.Status # tspResponseStatusGrantedWithMods
    THEN "invalid TSP response Status"
    ELSE IF resp.ContentType # oidTSPCmsSignedData
    THEN "invalid TSP TimeStampToken OID"
    ELSE IF resp.SignerInfos # 1
    THEN "single signature under TSP TimeStampToken expected"
    ELSE IF resp.EContentType # oidTSPTimeStampTokenContent
    THEN "invalid TSP EncapContentInfo OID"
    ELSE IF resp.EContent = "empty"
    THEN "invalid TSP TSTInfo encoded size"
    ELSE IF resp.EContent # "tstinfo"
    THEN "failed to decode TSTInfo"
    ELSE IF resp.TSTInfo.Policy # req.ReqPolicy
    THEN "TSP policy OID mismatch"
    ELSE IF resp.TSTInfo.MessageImprint # req.MessageImprint.Raw
    THEN "TSP MessageImprint mismatch"
    ELSE IF req.Nonce # <<>>
    THEN IF resp.TSTInfo.Nonce = <<>>
         THEN "TSP response nonce mismatch (nil)"
         ELSE IF resp.TSTInfo.Nonce[1] # req.Nonce[1]
              THEN "TSP nonce mismatch"
              ELSE "nil"
    ELSE "nil"

\* no monitor is enabled
MonitorsIdle ==
    /\ cfg = [m \in Monitors |-> DisabledConfig]
    /\ verbose = FALSE
    /\ ctxErr = FALSE
    /\ caller = [m \in Monitors |-> "main"]
    /\ sch = [m \in Monitors |-> FALSE]
    /\ pc = [m \in Monitors |-> "off"]
    /\ i = [m \in Monitors |-> 0]
    /\ lastError = [m \in Monitors |-> "nil"]
    /\ resultChannel = [m \in Monitors |-> <<>>]
    /\ closes = [m \in Monitors |-> 0]
    /\ dropped = [m \in Monitors |-> FALSE]
    /\ sends = [m \in Monitors |-> 0]
    /\ waits = [m \in Monitors |-> 0]
    /\ observations = [m \in Monitors |-> 0]
    /\ responseErrors = [m \in Monitors |-> [et \in ErrorTypes |-> 0]]
    /\ timer = [m \in Monitors |-> 0]
    /\ panicking = [m \in Monitors |-> FALSE]
    /\ nr = [m \in Monitors |-> NoResult]
    /\ exit = [m \in Monitors |-> "none"]
    /\ log = <<>>

\* the monitor variables the codec leaves alone
monitorRest == <<cfg, verbose, ctxErr, caller, sch, pc, i, lastError,
                 resultChannel, closes, dropped, sends, waits, observations,
                 timer, panicking, nr, exit, log>>

\* a decoded response is at hand: any request a successful encoder call leaves
\* and any response that decodes
ValidateInit ==
    /\ MonitorsIdle
    /\ TransportIdle
    /\ ConfigIdle
    /\ MainIdle
    /\ proto \in {"ocsp", "tsp"}
    /\ codecCfg \in [NonceSize : {0, MaxNonceSize}, DigestSize : {0, MaxDigestSize}]
    /\ proto = "ocsp" => codecCfg.DigestSize = 0
    /\ nonce \in IF proto = "ocsp" THEN OCSPNonces(codecCfg.NonceSize) ELSE {<<>>}
    /\ request \in
            IF proto = "ocsp"
            THEN {ocspRequest(s, MarshalCertID(s), nonce) : s \in Serials}
            ELSE UNION {{tspRequest(CanonicalImprint(d), h, n) :
                            h \in IF codecCfg.DigestSize = 0 THEN {d} ELSE Digests,
                            n \in TSPNonces(codecCfg.NonceSize)} : d \in Digests}
    /\ response \in IF proto = "ocsp" THEN ocspResponses ELSE tspResponses
    /\ encoded = <<>>
    /\ rnd = <<>>
    /\ validateError = "none"
    /\ cycle = 1
    /\ phase = "received"

\* a faulty count: a nested payload that does not decode is an "asn1" error
CountNestedDecodeAsAsn(m, err) ==
    IF err \in {"failed to decode OCSP BasicRespons", "failed to decode TSTInfo"}
    THEN [responseErrors EXCEPT ![m][responseErrorAsn] = @ + 1]
    ELSE IF err # "nil"
    THEN [responseErrors EXCEPT ![m][responseErrorContents] = @ + 1]
    ELSE responseErrors

\* the count of "contents" errors after a validator returned err
CountContents(m, err) ==
    IF err # "nil"
    THEN [responseErrors EXCEPT ![m][responseErrorContents] = @ + 1]
    ELSE responseErrors

\* ocspResponseValidate is called with the nonce of this cycle; its error is counted
ValidateOCSP ==
    /\ proto = "ocsp"
    /\ phase = "received"
    /\ validateError' = ocspResponseValidate(response, request, nonce)
    /\ responseErrors' = CountContents("ocsp", validateError')
    /\ phase' = "validated"
    /\ UNCHANGED <<otherVars, monitorRest, proto, codecCfg, request, encoded, nonce, rnd,
                   response, cycle>>

\* tspResponseValidate is called with the request object; its error is counted
ValidateTSP ==
    /\ proto = "tsp"
    /\ phase = "received"
    /\ validateError' = tspResponseValidate(response, request)
    /\ responseErrors' = CountContents("tsp", validateError')
    /\ phase' = "validated"
    /\ UNCHANGED <<otherVars, monitorRest, proto, codecCfg, request, encoded, nonce, rnd,
                   response, cycle>>

ValidateNext ==
    \/ ValidateOCSP
    \/ ValidateTSP

ValidateSpec == ValidateInit /\ [][ValidateNext]_vars


\* ---------------------------------------------------- claims on the validators

\* ocspResponseValidate has returned
OCSPValidated == proto = "ocsp" /\ phase = "validated"

\* the rules of an acceptable OCSP response that do not concern the nonce
OCSPRulesButNonce ==
    /\ response.ResponseStatus = 0
    /\ response.ResponseType = oidOCSPBasicResponse
    /\ response.Response = "basic"
    /\ \E k \in 1..Len(response.Basic.Responses) :
            response.Basic.Responses[k] = request.ReqCert.Raw

\* some extension of the response has the nonce OID and the value sent
NonceSomewhere ==
    \E k \in 1..Len(response.Basic.Extensions) :
        /\ response.Basic.Extensions[k].Id = oidOCSPNonceExtension
        /\ response.Basic.Extensions[k].Value = nonce

\* the first extension of the response with the nonce OID has the value sent
NonceInFirstNonceExtension ==
    \E k \in 1..Len(response.Basic.Extensions) :
        /\ response.Basic.Extensions[k].Id = oidOCSPNonceExtension
        /\ response.Basic.Extensions[k].Value = nonce
        /\ \A j \in 1..(k - 1) : response.Basic.Extensions[j].Id # oidOCSPNonceExtension

\* without a nonce the verdict is the same for every list of extensions
ExtensionsIgnoredWithoutNonce ==
    Len(nonce) = 0 =>
        \A exts \in SeqsUpTo(Extensions, MaxExtensions) :
            ocspResponseValidate([response EXCEPT !.Basic.Extensions = exts],
                                 request, nonce) = validateError

\* C14 as stated: ocspResponseValidate returns nil iff status is 0, the type is
\* the basic-response OID, the body is non-empty and decodes, some entry's CertID
\* is byte-equal to the request's and, when a nonce was sent, the extensions
\* contain the nonce OID with an identical value; without a nonce the result
\* does not depend on the extensions.
C14_AcceptsIffNonceAmongExtensions ==
    OCSPValidated =>
        /\ (validateError = "nil") <=>
                (OCSPRulesButNonce /\ (Len(nonce) > 0 => NonceSomewhere))
        /\ ExtensionsIgnoredWithoutNonce

\* C14 (amended): the same, the nonce rule being that the first extension with
\* the nonce OID has the identical value.
C14_AcceptsIffFirstNonceExtensionMatches ==
    OCSPValidated =>
        /\ (validateError = "nil") <=>
                (OCSPRulesButNonce /\ (Len(nonce) > 0 => NonceInFirstNonceExtension))
        /\ ExtensionsIgnoredWithoutNonce

\* a response with two nonce extensions, only the first with the value sent, is
\* accepted
C14_Witness ==
    /\ OCSPValidated
    /\ validateError = "nil"
    /\ Len(nonce) > 0
    /\ NonceIndexes(response.Basic.Extensions) = {1, 2}
    /\ response.Basic.Extensions[2].Value # nonce


\* the status entries of the response with the CertID encoding of the request
MatchingEntries ==
    {k \in 1..Len(response.Basic.Responses) :
        response.Basic.Responses[k] = request.ReqCert.Raw}

\* C15 as stated: an accepted OCSP response has exactly one status entry whose
\* encoded CertID equals the one sent; with no matching entry, or with more
\* than one, the response is rejected.
C15_AcceptedOnlyWithExactlyOneMatch ==
    OCSPValidated =>
        /\ validateError = "nil" => Cardinality(MatchingEntries) = 1
        /\ Cardinality(MatchingEntries) # 1 => validateError # "nil"

\* C15 (amended): an accepted OCSP response has at least one status entry whose
\* encoded CertID equals the one sent; with no matching entry the response is
\* rejected; with more than one the verdict is that of the response with one.
C15_AcceptedOnlyWithSomeMatch ==
    OCSPValidated =>
        /\ validateError = "nil" => Cardinality(MatchingEntries) >= 1
        /\ Cardinality(MatchingEntries) = 0 => validateError # "nil"
        /\ Cardinality(MatchingEntries) > 1 =>
                validateError =
                    ocspResponseValidate(
                        [response EXCEPT !.Basic.Responses = <<request.ReqCert.Raw>>],
                        request, nonce)

\* a response with two matching status entries is accepted
C15_Witness ==
    /\ OCSPValidated
    /\ validateError = "nil"
    /\ Cardinality(MatchingEntries) = 2


\* the verdict on the response with its status changed to st
WithStatus(st) ==
    ocspResponseValidate([response EXCEPT !.ResponseStatus = st], request, nonce)

\* the verdict on the response with its type changed to oid
WithType(oid) ==
    ocspResponseValidate([response EXCEPT !.ResponseType = oid], request, nonce)

\* the verdict on the response with the CertID of entry k changed to raw
WithCertID(k, raw) ==
    ocspResponseValidate([response EXCEPT !.Basic.Responses[k] = raw], request, nonce)

\* the verdict on the response with the value of extension k changed to v
WithExtensionValue(k, v) ==
    ocspResponseValidate([response EXCEPT !.Basic.Extensions[k].Value = v],
                         request, nonce)

\* the verdict on the response with extension k removed
WithoutExtension(k) ==
    ocspResponseValidate(
        [response EXCEPT !.Basic.Extensions =
            SubSeq(@, 1, k - 1) \o SubSeq(@, k + 1, Len(@))],
        request, nonce)

\* the rules in the order the claim gives, each with whether the response
\* violates it and the errors that name it
OCSPRules ==
    <<[violated |-> response.ResponseStatus # 0,
       errors |-> {"invalid OCSP ResponseStatus"}],
      [violated |-> response.ResponseType # oidOCSPBasicResponse,
       errors |-> {"invalid OCSP ResponseType"}],
      [violated |-> response.Response = "empty",
       errors |-> {"empty OCSP BasicResponse"}],
      [violated |-> response.Response = "garbage",
       errors |-> {"failed to decode OCSP BasicRespons"}],
      [violated |-> MatchingEntries = {},
       errors |-> {"no status info for certificate in OCSP response"}],
      [violated |-> Len(nonce) > 0 /\ ~NonceInFirstNonceExtension,
       errors |-> {"OCSP response nonce mismatch",
                   "nonce not found in OCSP response"}]>>

\* the rules the response violates
ViolatedRules == {k \in 1..Len(OCSPRules) : OCSPRules[k].violated}

\* the error is that of the first violated rule, and nil when none is violated
FirstViolatedRuleReported ==
    IF ViolatedRules = {}
    THEN validateError = "nil"
    ELSE \E k \in ViolatedRules :
            /\ \A j \in ViolatedRules : k <= j
            /\ validateError \in OCSPRules[k].errors

\* the monitor has counted the validator's error, and nothing else, as "contents"
CountedAsContents ==
    /\ responseErrors["ocsp"][responseErrorContents] =
            (IF validateError = "nil" THEN 0 ELSE 1)
    /\ \A et \in ErrorTypes \ {responseErrorContents} : responseErrors["ocsp"][et] = 0

\* a change of the status or of the type of an accepted response is reported
StatusAndTypeChangesReported ==
    /\ \A st \in {0, 1} \ {response.ResponseStatus} :
            WithStatus(st) = "invalid OCSP ResponseStatus"
    /\ \A oid \in {oidOCSPBasicResponse, oidOther} \ {response.ResponseType} :
            WithType(oid) = "invalid OCSP ResponseType"

\* C16 as stated: from an accepted OCSP response, changing only the status, only
\* the type, only a CertID or only a nonce value gives the error of that rule,
\* one per rule; a missing and a differing nonce extension give two errors; of
\* several violated rules the first in the order status, type, empty body,
\* decode, CertID, nonce is reported; every error is counted as "contents".
C16_AnySingleChangeIsReported ==
    OCSPValidated =>
        /\ FirstViolatedRuleReported
        /\ CountedAsContents
        /\ validateError = "nil" =>
            /\ StatusAndTypeChangesReported
            /\ \A k \in 1..Len(response.Basic.Responses) :
                \A raw \in {MarshalCertID(s) : s \in Serials} \ {response.Basic.Responses[k]} :
                    WithCertID(k, raw) = "no status info for certificate in OCSP response"
            /\ \A k \in NonceIndexes(response.Basic.Extensions) :
                \A v \in OCSPNonces(MaxNonceSize) \ {response.Basic.Extensions[k].Value} :
                    WithExtensionValue(k, v) = "OCSP response nonce mismatch"

\* C16 (amended): the CertID changed is that of the only matching entry, the
\* nonce value changed is that of the first extension with the nonce OID and a
\* nonce was sent; the rest as stated.
C16_SingleChangeOfCheckedPartIsReported ==
    OCSPValidated =>
        /\ FirstViolatedRuleReported
        /\ CountedAsContents
        /\ validateError = "nil" =>
            /\ StatusAndTypeChangesReported
            /\ \A k \in MatchingEntries :
                MatchingEntries = {k} =>
                    \A raw \in {MarshalCertID(s) : s \in Serials} \ {response.Basic.Responses[k]} :
                        WithCertID(k, raw) = "no status info for certificate in OCSP response"
            /\ \A k \in NonceIndexes(response.Basic.Extensions) :
                (Len(nonce) > 0 /\ \A j \in NonceIndexes(response.Basic.Extensions) : k <= j) =>
                    /\ \A v \in OCSPNonces(MaxNonceSize) \ {response.Basic.Extensions[k].Value} :
                            WithExtensionValue(k, v) = "OCSP response nonce mismatch"
                    /\ NonceIndexes(response.Basic.Extensions) = {k} =>
                            WithoutExtension(k) = "nonce not found in OCSP response"

\* an accepted response to a request with a nonce, with one matching entry
C16_Witness ==
    /\ OCSPValidated
    /\ validateError = "nil"
    /\ Len(nonce) > 0
    /\ Cardinality(MatchingEntries) = 1
    /\ NonceIndexes(response.Basic.Extensions) = {1}
    /\ WithStatus(1) = "invalid OCSP ResponseStatus"
    /\ WithoutExtension(1) = "nonce not found in OCSP response"
    /\ \E v \in OCSPNonces(MaxNonceSize) :
            WithExtensionValue(1, v) = "OCSP response nonce mismatch"


\* tspResponseValidate has returned
TSPValidated == proto = "tsp" /\ phase = "validated"

\* the rules of an acceptable TSP response
TSPRules ==
    /\ response.Status \in {0, 1}
    /\ response.ContentType = oidTSPCmsSignedData
    /\ response.SignerInfos = 1
    /\ response.EContentType = oidTSPTimeStampTokenContent
    /\ response.EContent = "tstinfo"
    /\ response.TSTInfo.Policy = request.ReqPolicy
    /\ response.TSTInfo.MessageImprint = request.MessageImprint.Raw
    /\ request.Nonce # <<>> =>
            /\ response.TSTInfo.Nonce # <<>>
            /\ response.TSTInfo.Nonce[1] = request.Nonce[1]

\* the verdict on the response with this TSTInfo
WithTSTInfo(ti) == tspResponseValidate([response EXCEPT !.TSTInfo = ti], request)

\* a change of the policy or of the MessageImprint of the response is an error
PolicyAndImprintChangesRejected ==
    /\ \A oid \in {configuredPolicy, oidOther} \ {response.TSTInfo.Policy} :
            WithTSTInfo([response.TSTInfo EXCEPT !.Policy = oid]) # "nil"
    /\ \A d \in Digests :
            CanonicalImprint(d) # response.TSTInfo.MessageImprint =>
                WithTSTInfo([response.TSTInfo EXCEPT !.MessageImprint =
                                CanonicalImprint(d)]) # "nil"

\* a change of the value of the nonce of the response is an error
NonceValueChangeRejected ==
    response.TSTInfo.Nonce # <<>> =>
        \A n \in TSPNonces(MaxNonceSize) \ {response.TSTInfo.Nonce} :
            WithTSTInfo([response.TSTInfo EXCEPT !.Nonce = n]) # "nil"

\* C17 as stated: tspResponseValidate returns nil iff the status is 0 or 1, the
\* content type is signed-data, there is one signer info, the encapsulated
\* content type is TSTInfo, the content is non-empty and decodes, the policy is
\* the requested one, the MessageImprint encodings are byte-equal and, when the
\* request carried a nonce, the response's is present and numerically equal;
\* changing only the policy, only the imprint or only the nonce value of an
\* accepted response gives an error.
C17_AcceptsIffRulesAndAnyChangeRejected ==
    TSPValidated =>
        /\ (validateError = "nil") <=> TSPRules
        /\ validateError = "nil" =>
                (PolicyAndImprintChangesRejected /\ NonceValueChangeRejected)

\* C17 (amended): the change of the nonce value gives an error when the request
\* carried a nonce; the rest as stated.
C17_AcceptsIffRulesAndCheckedChangeRejected ==
    TSPValidated =>
        /\ (validateError = "nil") <=> TSPRules
        /\ validateError = "nil" =>
                /\ PolicyAndImprintChangesRejected
                /\ request.Nonce # <<>> => NonceValueChangeRejected

\* an accepted response to a request with a nonce
C17_Witness ==
    /\ TSPValidated
    /\ validateError = "nil"
    /\ request.Nonce # <<>>
    /\ response.TSTInfo.Nonce = request.Nonce
    /\ response.Status = tspResponseStatusGrantedWithMods


\* the outer response decoded, its nested payload (the BasicOCSPResponse, the
\* TSTInfo) does not
NestedPayloadUndecodable ==
    IF proto = "ocsp" THEN response.Response = "garbage" ELSE response.EContent = "garbage"

\* the rules the validator tests before it decodes the nested payload hold
OuterRulesHold ==
    IF proto = "ocsp"
    THEN response.ResponseStatus = 0 /\ response.ResponseType = oidOCSPBasicResponse
    ELSE /\ response.Status \in {tspResponseStatusGranted, tspResponseStatusGrantedWithMods}
         /\ response.ContentType = oidTSPCmsSignedData
         /\ response.SignerInfos = 1
         /\ response.EContentType = oidTSPTimeStampTokenContent

\* C33: a response whose outer structure decodes but whose nested payload does
\* not is counted as a "contents" failure and not as an "asn1" failure: the
\* validator returns an error (the decode error of the payload when the rules
\* before it hold), one "contents" error is counted and no "asn1" error; no
\* response whose outer structure decoded is counted as "asn1".
C33_NestedDecodeFailureIsContents ==
    phase = "validated" =>
        /\ responseErrors[proto][responseErrorAsn] = 0
        /\ NestedPayloadUndecodable =>
                /\ validateError # "nil"
                /\ responseErrors[proto][responseErrorContents] = 1
                /\ OuterRulesHold =>
                        validateError \in {"failed to decode OCSP BasicRespons",
                                           "failed to decode TSTInfo"}

\* a TSP token with good outer fields whose TSTInfo does not decode was counted
C33_Witness ==
    /\ phase = "validated"
    /\ proto = "tsp"
    /\ NestedPayloadUndecodable
    /\ OuterRulesHold
    /\ validateError = "failed to decode TSTInfo"
    /\ responseErrors["tsp"][responseErrorContents] = 1

\* ------------------------------------------------------------- poll cycles

\* the poll cycles followed
MaxCycles == 2

TagInteger == 2

\* asn1.Marshal of an ocspCertID: a non-empty Raw is written as it is
MarshalCertIDStruct(reqCert) ==
    IF Len(reqCert.Raw) > 0 THEN reqCert.Raw ELSE MarshalCertID(reqCert.SerialNumber)

\* asn1.Marshal of a pkix.Extension: extnValue is the OCTET STRING of Value
MarshalExtension(ext) ==
    [Id |-> ext.Id, Critical |-> ext.Critical, Value |-> OctetString(ext.Value)]

\* asn1.Unmarshal into a pkix.Extension: Value is the contents of extnValue
UnmarshalExtension(der) ==
    [Id |-> der.Id, Critical |-> der.Critical, Value |-> UnwrapOctetString(der.Value)]

\* asn1.Marshal of the ocspRequest, field by field
MarshalOCSPRequest(req) ==
    [ReqCert |-> MarshalCertIDStruct(req.ReqCert),
     RequestExtensions |->
        [k \in 1..Len(req.RequestExtensions) |-> MarshalExtension(req.RequestExtensions[k])]]

\* asn1.Unmarshal of an encoded OCSP request
UnmarshalOCSPRequest(der) ==
    [ReqCert |-> der.ReqCert,
     RequestExtensions |->
        [k \in 1..Len(der.RequestExtensions) |-> UnmarshalExtension(der.RequestExtensions[k])]]

\* the encoder returning the random bytes themselves as the nonce
ocspEncodeRequestBareNonce(req, nonceSize, rb) ==
    LET n == IF nonceSize > 0 THEN OctetString(rb) ELSE <<>>
        withNonce == IF nonceSize > 0
                     THEN [req EXCEPT !.RequestExtensions = NonceExtensions(n)]
                     ELSE req
        withRaw == IF Len(withNonce.ReqCert.Raw) = 0
                   THEN [withNonce EXCEPT !.ReqCert.Raw =
                            MarshalCertIDStruct(withNonce.ReqCert)]
                   ELSE withNonce
    IN  [request |-> withRaw, encoded |-> MarshalOCSPRequest(withRaw), nonce |-> rb]

\* the encoder setting the nonce extension only in a request that has none
ocspEncodeRequestKeepsNonce(req, nonceSize, rb) ==
    LET n == IF nonceSize > 0 THEN OctetString(rb) ELSE <<>>
        withNonce == IF nonceSize > 0 /\ Len(req.RequestExtensions) = 0
                     THEN [req EXCEPT !.RequestExtensions = NonceExtensions(n)]
                     ELSE req
        withRaw == IF Len(withNonce.ReqCert.Raw) = 0
                   THEN [withNonce EXCEPT !.ReqCert.Raw =
                            MarshalCertIDStruct(withNonce.ReqCert)]
                   ELSE withNonce
    IN  [request |-> withRaw, encoded |-> MarshalOCSPRequest(withRaw), nonce |-> n]

\* ocspEncodeRequest where random(nonceSize) returned rb: the request as it is
\* left, the encoding and the nonce returned
ocspEncodeRequest(req, nonceSize, rb) ==
    LET n == IF nonceSize > 0 THEN OctetString(rb) ELSE <<>>
        withNonce == IF nonceSize > 0
                     THEN [req EXCEPT !.RequestExtensions = NonceExtensions(n)]
                     ELSE req
        withRaw == IF Len(withNonce.ReqCert.Raw) = 0
                   THEN [withNonce EXCEPT !.ReqCert.Raw =
                            MarshalCertIDStruct(withNonce.ReqCert)]
                   ELSE withNonce
    IN  [request |-> withRaw, encoded |-> MarshalOCSPRequest(withRaw), nonce |-> n]

\* asn1.Marshal of an optional *big.Int: nothing for nil, else an INTEGER
MarshalOptionalInteger(n) == IF n = <<>> THEN <<>> ELSE <<TagInteger, n[1]>>

\* asn1.Unmarshal into an optional *big.Int
UnmarshalOptionalInteger(der) ==
    IF Len(der) = 2 /\ der[1] = TagInteger THEN <<der[2]>> ELSE <<>>

\* asn1.Marshal of the tspRequest, field by field
MarshalTSPRequest(req) ==
    [MessageImprint |-> MarshalMessageImprint(req.MessageImprint),
     ReqPolicy |-> req.ReqPolicy,
     Nonce |-> MarshalOptionalInteger(req.Nonce)]

\* the encoder overwriting the digest whatever digestSize is
tspEncodeRequestAlwaysNewDigest(req, digestSize, nonceSize, rd, rb) ==
    LET withDigest == [req EXCEPT !.MessageImprint.HashedMessage = rd]
        withNonce == [withDigest EXCEPT !.Nonce = IF nonceSize > 0
                                                  THEN <<BigInt(rb)>>
                                                  ELSE <<>>]
        withRaw == [withNonce EXCEPT !.MessageImprint.Raw =
                        MarshalMessageImprint(withNonce.MessageImprint)]
    IN  [request |-> withRaw, encoded |-> MarshalTSPRequest(withRaw)]

\* tspEncodeRequest where random(digestSize) returned rd and random(nonceSize)
\* returned rb: the request as it is left and the encoding
tspEncodeRequest(req, digestSize, nonceSize, rd, rb) ==
    LET withDigest == IF digestSize > 0
                      THEN [req EXCEPT !.MessageImprint.HashedMessage = rd]
                      ELSE req
        withNonce == [withDigest EXCEPT !.Nonce = IF nonceSize > 0
                                                  THEN <<BigInt(rb)>>
                                                  ELSE <<>>]
        withRaw == [withNonce EXCEPT !.MessageImprint.Raw =
                        MarshalMessageImprint(withNonce.MessageImprint)]
    IN  [request |-> withRaw, encoded |-> MarshalTSPRequest(withRaw)]

\* tspMonitorStart: a configured digest is put into the template and no random
\* digest is made, whatever cfg.DigestSize is
digestSizeOf(digestValue, configured) ==
    IF Len(digestValue) # 0 THEN 0 ELSE configured

\* nothing was drawn from random() yet; lastDigest and lastNonce are what the
\* cycle before drew
NoRandom == [digest |-> <<>>, nonce |-> <<>>, lastDigest |-> <<>>, lastNonce |-> <<>>]

\* a monitor about to enter its loop with the request template
CycleInit ==
    /\ MonitorsIdle
    /\ TransportIdle
    /\ ConfigIdle
    /\ MainIdle
    /\ proto \in {"ocsp", "tsp"}
    /\ \E ns \in 0..MaxNonceSize, ds \in 0..MaxDigestSize,
          dv \in Digests \cup {<<>>}, s \in Serials :
            IF proto = "ocsp"
            THEN /\ codecCfg = [NonceSize |-> ns, DigestSize |-> 0]
                 /\ request = ocspRequest(s, <<>>, <<>>)
            ELSE \* Validate: with no digest, digestsize is at least 1
                 /\ Len(dv) = 0 => ds >= 1
                 /\ codecCfg = [NonceSize |-> ns, DigestSize |-> digestSizeOf(dv, ds)]
                 /\ request = tspRequest(<<>>, dv, <<>>)
    /\ encoded = <<>>
    /\ nonce = <<>>
    /\ rnd = NoRandom
    /\ response = <<>>
    /\ validateError = "none"
    /\ cycle = 0
    /\ phase = "encode"

\* the loop body up to the send, OCSP: the request is encoded with a new nonce
EncodeOCSP ==
    /\ proto = "ocsp"
    /\ phase = "encode"
    /\ cycle < MaxCycles
    /\ \E rb \in OctetStrings(codecCfg.NonceSize) :
        LET r == ocspEncodeRequest(request, codecCfg.NonceSize, rb)
        IN  /\ request' = r.request
            /\ encoded' = r.encoded
            /\ nonce' = r.nonce
            /\ rnd' = [digest |-> <<>>, nonce |-> rb,
                       lastDigest |-> rnd.digest, lastNonce |-> rnd.nonce]
    /\ cycle' = cycle + 1
    /\ phase' = "sent"
    /\ UNCHANGED <<otherVars, monitorRest, responseErrors, proto, codecCfg, response, validateError>>

\* the loop body up to the send, TSP: the request is encoded with a new digest
\* and a new nonce
EncodeTSP ==
    /\ proto = "tsp"
    /\ phase = "encode"
    /\ cycle < MaxCycles
    /\ \E rd \in OctetStrings(codecCfg.DigestSize), rb \in OctetStrings(codecCfg.NonceSize) :
        LET r == tspEncodeRequest(request, codecCfg.DigestSize, codecCfg.NonceSize, rd, rb)
        IN  /\ request' = r.request
            /\ encoded' = r.encoded
            /\ rnd' = [digest |-> rd, nonce |-> rb,
                       lastDigest |-> rnd.digest, lastNonce |-> rnd.nonce]
    /\ cycle' = cycle + 1
    /\ phase' = "sent"
    /\ UNCHANGED <<otherVars, monitorRest, responseErrors, proto, codecCfg, nonce, response,
                   validateError>>

\* random() returns an error: the encoder fails and the loop is left
EncodeFails ==
    /\ phase = "encode"
    /\ cycle < MaxCycles
    /\ codecCfg.NonceSize > 0 \/ codecCfg.DigestSize > 0
    /\ cycle' = cycle + 1
    /\ phase' = "stopped"
    /\ UNCHANGED <<otherVars, monitorRest, responseErrors, proto, codecCfg, request, encoded,
                   nonce, rnd, response, validateError>>

\* the responses of a responder that answers for the certificate asked, with
\* no nonce or with any nonce
OCSPAnswers ==
    [ResponseStatus : {0},
     ResponseType : {oidOCSPBasicResponse},
     Response : {"basic"},
     Basic : [Responses : {<<encoded.ReqCert>>},
              Extensions : {<<>>} \cup
                    {<<[Id |-> oidOCSPNonceExtension, Critical |-> FALSE, Value |-> v]>> :
                        v \in OCSPNonces(MaxNonceSize)}]]

\* the responses of an authority that stamps any digest, with no nonce or with
\* any nonce
TSPAnswers ==
    [Status : {tspResponseStatusGranted},
     ContentType : {oidTSPCmsSignedData},
     SignerInfos : {1},
     EContentType : {oidTSPTimeStampTokenContent},
     EContent : {"tstinfo"},
     TSTInfo : [Policy : {encoded.ReqPolicy},
                MessageImprint : {CanonicalImprint(d) : d \in Digests},
                Nonce : TSPNonces(0) \cup TSPNonces(MaxNonceSize)]]

\* the response arrives and decodes
Respond ==
    /\ phase = "sent"
    /\ response' \in IF proto = "ocsp" THEN OCSPAnswers ELSE TSPAnswers
    /\ phase' = "received"
    /\ UNCHANGED <<otherVars, monitorRest, responseErrors, proto, codecCfg, request, encoded,
                   nonce, rnd, validateError, cycle>>

\* the end of the loop body: the next iteration begins
NextCycle ==
    /\ phase = "validated"
    /\ cycle < MaxCycles
    /\ phase' = "encode"
    /\ UNCHANGED <<otherVars, monitorRest, responseErrors, proto, codecCfg, request, encoded,
                   nonce, rnd, response, validateError, cycle>>

CycleNext ==
    \/ EncodeOCSP
    \/ EncodeTSP
    \/ EncodeFails
    \/ Respond
    \/ ValidateOCSP
    \/ ValidateTSP
    \/ NextCycle

CycleSpec == CycleInit /\ [][CycleNext]_vars


\* ---------------------------------------------------- claims on the poll cycle

\* the encoder of this cycle has returned successfully
Encoded == phase \in {"sent", "received", "validated"}

\* C18: in every poll cycle of the TSP monitor, after tspEncodeRequest returned
\* successfully, the request's MessageImprint.Raw and the MessageImprint inside
\* the encoded request are the canonical encoding of the current HashedMessage;
\* with no fixed digest the request of cycle k carries the random digest of
\* cycle k.
C18_ImprintIsCanonicalInEveryCycle ==
    (proto = "tsp" /\ Encoded) =>
        /\ request.MessageImprint.Raw =
                CanonicalImprint(request.MessageImprint.HashedMessage)
        /\ encoded.MessageImprint =
                CanonicalImprint(request.MessageImprint.HashedMessage)
        /\ codecCfg.DigestSize > 0 => encoded.MessageImprint = CanonicalImprint(rnd.digest)

\* the nonce of the request on the wire, as the server decodes it
NonceOnWire ==
    IF proto = "ocsp"
    THEN LET exts == UnmarshalOCSPRequest(encoded).RequestExtensions
         IN  {exts[k].Value : k \in NonceIndexes(exts)}
    ELSE {UnmarshalOptionalInteger(encoded.Nonce)} \ {<<>>}

\* the nonce of the response, as the validator reads it
NonceOfResponse ==
    IF proto = "ocsp"
    THEN {response.Basic.Extensions[k].Value : k \in NonceIndexes(response.Basic.Extensions)}
    ELSE {response.TSTInfo.Nonce} \ {<<>>}

\* the nonce made of what random() returned in this cycle
NonceOfCycle ==
    IF proto = "ocsp" THEN OctetString(rnd.nonce) ELSE <<BigInt(rnd.nonce)>>

\* the errors of the nonce checks
NonceErrors ==
    {"OCSP response nonce mismatch", "nonce not found in OCSP response",
     "TSP response nonce mismatch (nil)", "TSP nonce mismatch"}

\* C19: with nonce size > 0 the request sent in cycle k carries exactly the
\* nonce drawn in cycle k and the response of cycle k is accepted only with
\* that nonce, a response without it or with another failing the nonce check;
\* with nonce size 0 the request has no nonce and no nonce check fails. OCSP
\* and TSP alike.
C19_NonceOfTheCycleSentAndChecked ==
    Encoded =>
        IF codecCfg.NonceSize > 0
        THEN /\ Len(rnd.nonce) = codecCfg.NonceSize
             /\ NonceOnWire = {NonceOfCycle}
             /\ phase = "validated" =>
                    /\ validateError = "nil" => NonceOfResponse = {NonceOfCycle}
                    /\ NonceOfResponse # {NonceOfCycle} =>
                            validateError \in NonceErrors \cup {"TSP MessageImprint mismatch"}
        ELSE /\ NonceOnWire = {}
             /\ phase = "validated" => validateError \notin NonceErrors

\* in the second cycle the response carries the nonce of the first, which is
\* not that of the second, and fails the nonce check
C19_Witness ==
    /\ phase = "validated"
    /\ cycle = 2
    /\ codecCfg.NonceSize > 0
    /\ rnd.lastNonce # rnd.nonce
    /\ NonceOfResponse =
            {IF proto = "ocsp" THEN OctetString(rnd.lastNonce) ELSE <<BigInt(rnd.lastNonce)>>}
    /\ validateError \in NonceErrors

\* C20: for every nonce size n > 0 the extension built by ocspEncodeRequest
\* round-trips: the decoded request has one extension, with the nonce OID and a
\* value byte-identical to the nonce returned, which is the OCTET STRING of the
\* n random bytes and unwraps to them.
C20_NonceExtensionRoundTrips ==
    (proto = "ocsp" /\ Encoded /\ codecCfg.NonceSize > 0) =>
        LET exts == UnmarshalOCSPRequest(encoded).RequestExtensions
        IN  /\ Len(exts) = 1
            /\ exts[1].Id = oidOCSPNonceExtension
            /\ exts[1].Value = nonce
            /\ nonce = OctetString(rnd.nonce)
            /\ Len(nonce) = codecCfg.NonceSize + 2
            /\ UnwrapOctetString(exts[1].Value) = rnd.nonce
            /\ Len(rnd.nonce) = codecCfg.NonceSize

\* the second request of an OCSP monitor carries a nonce other than the first
C20_Witness ==
    /\ proto = "ocsp"
    /\ phase = "sent"
    /\ cycle = 2
    /\ codecCfg.NonceSize = MaxNonceSize
    /\ rnd.lastNonce # rnd.nonce
    /\ UnwrapOctetString(UnmarshalOCSPRequest(encoded).RequestExtensions[1].Value) = rnd.nonce


\* ------------------------------------------------------- one transport call

\* postRequest is about to be called: the server's answer and the limit are fixed
TransportInit ==
    /\ MonitorsIdle
    /\ CodecIdle
    /\ ConfigIdle
    /\ MainIdle
    /\ httpResponse \in [StatusCode : StatusCodes, Body : Bodies]
    /\ maxResponseSize \in 0..MaxBodyLen
    /\ postResult = NoResult

\* http.NewRequestWithContext fails: the zero result and an error
NewRequestFails ==
    /\ postResult = NoResult
    /\ postResult' = [nr |-> networkResult(0, 0, NoBody), err |-> "create"]
    /\ UNCHANGED <<monitorRest, responseErrors, codecVars, configVars, mainVars,
                   httpResponse, maxResponseSize>>

\* client.Do fails: the elapsed time and an error
ClientDoFails ==
    /\ postResult = NoResult
    /\ postResult' = [nr |-> networkResult(0, 1, NoBody), err |-> "net"]
    /\ UNCHANGED <<monitorRest, responseErrors, codecVars, configVars, mainVars,
                   httpResponse, maxResponseSize>>

\* the headers arrive and io.ReadAll fails
BodyReadFails ==
    /\ postResult = NoResult
    /\ postResult' = [nr |-> networkResult(httpResponse.StatusCode, 1, NoBody),
                      err |-> "net"]
    /\ UNCHANGED <<monitorRest, responseErrors, codecVars, configVars, mainVars,
                   httpResponse, maxResponseSize>>

\* the headers arrive and the body is read with regard to maxSize
BodyRead ==
    /\ postResult = NoResult
    /\ postResult' =
            [nr |-> networkResult(httpResponse.StatusCode, 1,
                                  ReadBody(httpResponse.Body, maxResponseSize).Body),
             err |-> ReadBody(httpResponse.Body, maxResponseSize).err]
    /\ UNCHANGED <<monitorRest, responseErrors, codecVars, configVars, mainVars,
                   httpResponse, maxResponseSize>>

TransportNext ==
    \/ NewRequestFails
    \/ ClientDoFails
    \/ BodyReadFails
    \/ BodyRead

TransportSpec == TransportInit /\ [][TransportNext]_vars

\* postRequest has returned after the headers arrived
HeadersArrived == postResult.err # "none" /\ postResult.nr.StatusCode # 0

\* C21: for maxSize > 0 and a body longer than maxSize postRequest returns an
\* error with at most maxSize bytes of body, and the size error is counted by
\* every monitor as "net", the context cancelled or not; for maxSize = 0 the
\* whole body is read and there is no size error.
C21_LongBodyIsAnErrorUnlessUnlimited ==
    HeadersArrived =>
        /\ (maxResponseSize > 0 /\ httpResponse.Body.len > maxResponseSize) =>
                /\ postResult.err # "nil"
                /\ postResult.nr.Body.len <= maxResponseSize
        /\ postResult.err = "size" =>
                \A m \in Monitors, cancelled \in BOOLEAN :
                    Classify(m, postResult, cancelled) = responseErrorNet
        /\ maxResponseSize = 0 =>
                /\ postResult.err # "size"
                /\ postResult.err = "nil" => postResult.nr.Body = httpResponse.Body

\* a body one byte longer than the limit was read up to the limit and reported
C21_Witness ==
    /\ HeadersArrived
    /\ maxResponseSize > 0
    /\ httpResponse.Body.len = maxResponseSize + 1
    /\ postResult.err = "size"
    /\ postResult.nr.Body.len = maxResponseSize


\* C30: for maxSize > 0 a body of at most maxSize bytes, one of exactly maxSize
\* bytes included, is returned in full and without a size error; the size error
\* is raised only when the body is longer than maxSize.
C30_BodyUpToTheLimitIsReturned ==
    (HeadersArrived /\ maxResponseSize > 0) =>
        /\ (httpResponse.Body.len <= maxResponseSize /\ postResult.err # "net") =>
                /\ postResult.nr.Body = httpResponse.Body
                /\ postResult.err = "nil"
        /\ postResult.err = "size" => httpResponse.Body.len > maxResponseSize


\* a step in which the encoder of the protocol returns successfully
EncoderStep == phase = "encode" /\ phase' = "sent"

\* C25: across poll cycles the request template changes only in the fields that
\* vary, and only in the encoder. OCSP: the nonce extension, and the CertID
\* encoding when it is built in the first cycle; the CertID fields never. TSP:
\* the nonce, the random digest and the MessageImprint encoding; version, hash
\* algorithm, policy and certificate-request flag never, and a configured
\* digest stays in HashedMessage in every cycle.
C25_TemplateChangesOnlyInTheVaryingFields ==
    [][/\ ~EncoderStep => request' = request
       /\ (EncoderStep /\ proto = "ocsp") =>
            /\ [request' EXCEPT !.RequestExtensions = request.RequestExtensions,
                                !.ReqCert.Raw = request.ReqCert.Raw] = request
            /\ cycle >= 1 => request'.ReqCert.Raw = request.ReqCert.Raw
            /\ request'.ReqCert.Raw = MarshalCertIDStruct(request.ReqCert)
       /\ (EncoderStep /\ proto = "tsp") =>
            /\ [request' EXCEPT !.Nonce = request.Nonce,
                                !.MessageImprint.HashedMessage =
                                    request.MessageImprint.HashedMessage,
                                !.MessageImprint.Raw = request.MessageImprint.Raw] = request
            /\ codecCfg.DigestSize = 0 =>
                    /\ request'.MessageImprint.HashedMessage =
                            request.MessageImprint.HashedMessage
                    /\ request'.MessageImprint.HashedMessage \in Digests]_vars

\* the second cycle of a TSP monitor with a configured digest has encoded a
\* request with another nonce than the first
C25_Witness ==
    /\ proto = "tsp"
    /\ cycle = 2
    /\ phase = "sent"
    /\ codecCfg.DigestSize = 0
    /\ request.MessageImprint.HashedMessage \in Digests
    /\ rnd.nonce # rnd.lastNonce
    /\ request.Nonce = <<BigInt(rnd.nonce)>>

\* the outcome classes of an attempt that was processed to its end
OutcomeClasses == ErrorTypes \cup {"success"}

\* the last attempt a bounded monitor is allowed
LastPermitted(m) == cfg[m].RetryCount > 0 /\ i[m] = cfg[m].RetryCount - 1

\* C26: after every attempt that is processed to an outcome, whatever its class
\* (success, net, http, asn1, contents), the monitor calls waitForTimeout exactly
\* once before the next attempt, unless the attempt was the last permitted one
\* (retryCount > 0 and attempt index = retryCount - 1), after which it calls it
\* not at all; the attempt index moves on only after that.
C26_OneRetryWaitAfterEveryOutcome ==
    [][\A m \in Monitors :
        /\ (pc[m] = "returned" /\ pc'[m] # "returned"
                /\ Classify(m, nr[m], ctxErr) \in OutcomeClasses) =>
                IF LastPermitted(m)
                THEN pc'[m] = "loop" /\ i'[m] = i[m] + 1 /\ waits'[m] = waits[m]
                ELSE pc'[m] = "wait" /\ i'[m] = i[m] /\ waits'[m] = waits[m]
        /\ pc[m] = "wait" => (pc'[m] = "wait" \/ waits'[m] = waits[m] + 1)
        /\ pc[m] # "wait" => waits'[m] = waits[m]
        /\ i'[m] # i[m] =>
                /\ i'[m] = i[m] + 1
                /\ waits'[m] = IF LastPermitted(m) THEN i[m] ELSE i[m] + 1]_vars

\* a monitor is in its second attempt after a content-validation failure and
\* one retry wait
C26_Witness ==
    \E m \in Monitors :
        /\ responseErrors[m]["contents"] = 1
        /\ observations[m] = 1
        /\ i[m] = 1
        /\ waits[m] = 1
        /\ pc[m] = "do"

\* the outcome of an attempt in the generic retry machine, given whether the
\* protocol's decode and validation steps succeed
GenericOutcome(r, cancelled, decoded, valid) ==
    IF RequestNotCreated(r.nr) THEN "fatal"
    ELSE IF r.err # "nil"
    THEN IF cancelled /\ ErrorsIsCtxErr(r.err) THEN "cancelled" ELSE "net"
    ELSE IF r.nr.StatusCode < StatusOK \/ r.nr.StatusCode >= StatusMultipleChoices
    THEN "http"
    ELSE IF ~decoded THEN "asn1"
    ELSE IF ~valid THEN "contents"
    ELSE "success"

\* what the generic machine does with a transport result: the counters, the
\* termination decision and the wait decision
GenericAttemptEnd(m, outcome) ==
    /\ observations'[m] = observations[m] + (IF outcome = "fatal" THEN 0 ELSE 1)
    /\ \A et \in ErrorTypes :
            responseErrors'[m][et] =
                responseErrors[m][et] + (IF outcome = et THEN 1 ELSE 0)
    /\ lastError'[m] = IF outcome = "fatal" THEN "create" ELSE lastError[m]
    /\ pc'[m] = IF outcome \in {"fatal", "cancelled"} THEN "defer"
                ELSE IF LastPermitted(m) THEN "loop" ELSE "wait"

\* C27: the three monitors are instances of one generic retry state machine:
\* with the same configuration, transport results and cancellation times each
\* of them makes the same sends, waits, counter increments and termination
\* decisions, the HTTP monitor being a monitor whose request build, decode and
\* validation steps always succeed. A request build step either succeeds and
\* is followed by the send, or fails and ends the monitor with its error; a
\* transport result is processed by the same rules in every monitor.
C27_MonitorsAreOneGenericMachine ==
    [][\A m \in Monitors :
        /\ (pc[m] = "loop" /\ pc'[m] \notin {"loop", "defer"}) =>
                pc'[m] = IF m = "http" THEN "post" ELSE "encode"
        /\ (pc[m] = "encode" /\ pc'[m] # "encode") =>
                \/ pc'[m] = "post" /\ lastError'[m] = lastError[m]
                \/ pc'[m] = "defer" /\ exit'[m] = "fatal" /\ lastError'[m] # "nil"
        /\ (pc[m] = "post" /\ pc'[m] # "post") =>
                IF cfg[m].URLParses
                THEN pc'[m] = "do" /\ sends'[m] = sends[m] + 1
                ELSE pc'[m] = "returned" /\ sends'[m] = sends[m]
        /\ (pc[m] = "returned" /\ pc'[m] # "returned") =>
                GenericAttemptEnd(m, GenericOutcome(nr[m], ctxErr,
                                        m = "http" \/ Unmarshal(nr[m].nr.Body),
                                        m = "http" \/ ResponseValidate(nr[m].nr.Body)))]_vars

\* -------------------------------------------------------------------- main

\* the values main gives exitCode
exitCodeConfig == 1

exitCodeLogger == 2

exitCodeNothingToDo == 5

exitCodeOCSP == 7

exitCodeTSP == 8

exitCodeHTTP == 8

exitCodeMetrics == 9

\* the subsystems main waits for
Subsystems == Monitors \cup {"metrics"}

\* the exit code of the select case of a subsystem
FailureExitCode ==
    [s \in Subsystems |->
        CASE s = "ocsp" -> exitCodeOCSP
          [] s = "tsp" -> exitCodeTSP
          [] s = "http" -> exitCodeHTTP
          [] s = "metrics" -> exitCodeMetrics]

\* stopError as the select case of a subsystem wraps it
FailureText ==
    [s \in Subsystems |->
        CASE s = "ocsp" -> "OCSP failed"
          [] s = "tsp" -> "TSP failed"
          [] s = "http" -> "HTTP failed"
          [] s = "metrics" -> "metrics server failed"]

\* a section of a monitor that is not disabled
EnabledConfig == [DisabledConfig EXCEPT !.Disabled = FALSE]

\* the variables main and the monitors' channels leave alone
mainRest == <<verbose, caller, sch, pc, i, lastError, dropped, sends, waits,
              observations, responseErrors, timer, panicking, nr, exit,
              codecVars, transportVars, configVars>>

\* main after `defer os.Exit(exitCode)`: the argument of the deferred call is
\* evaluated when the defer statement is executed
MainInit ==
    /\ cfg \in [Monitors -> {DisabledConfig, EnabledConfig}]
    /\ verbose = FALSE
    /\ ctxErr = FALSE
    /\ caller = [m \in Monitors |-> "main"]
    /\ sch = [m \in Monitors |-> FALSE]
    /\ pc = [m \in Monitors |-> "off"]
    /\ i = [m \in Monitors |-> 0]
    /\ lastError = [m \in Monitors |-> "nil"]
    /\ resultChannel = [m \in Monitors |-> <<>>]
    /\ closes = [m \in Monitors |-> 0]
    /\ dropped = [m \in Monitors |-> FALSE]
    /\ sends = [m \in Monitors |-> 0]
    /\ waits = [m \in Monitors |-> 0]
    /\ observations = [m \in Monitors |-> 0]
    /\ responseErrors = [m \in Monitors |-> [et \in ErrorTypes |-> 0]]
    /\ timer = [m \in Monitors |-> 0]
    /\ panicking = [m \in Monitors |-> FALSE]
    /\ nr = [m \in Monitors |-> NoResult]
    /\ exit = [m \in Monitors |-> "none"]
    /\ log = <<>>
    /\ CodecIdle
    /\ TransportIdle
    /\ ConfigIdle
    /\ mainPc = "flags"
    /\ exitCode = 0
    /\ osExit = exitCode
    /\ exitStatus = "none"
    /\ stopError = "nil"
    /\ channels = [s \in Subsystems |-> FALSE]
    /\ srvMetrics \in [Enabled : BOOLEAN]

\* -help: the usage is shown and main returns; only os.Exit is deferred yet
ShowHelp ==
    /\ mainPc = "flags"
    /\ mainPc' = "early"
    /\ UNCHANGED <<mainRest, log, cfg, ctxErr, resultChannel, closes, exitCode, osExit,
                   exitStatus, stopError, channels, srvMetrics>>

\* buildConfig returns an error
BuildConfigFails ==
    /\ mainPc = "flags"
    /\ exitCode' = exitCodeConfig
    /\ mainPc' = "early"
    /\ UNCHANGED <<mainRest, log, cfg, ctxErr, resultChannel, closes, osExit, exitStatus,
                   stopError, channels, srvMetrics>>

\* newAppLogger returns an error and a nil logger: exitCode is set and main
\* goes on to getAppContext().Logger.Log().Msg("start"), which dereferences the
\* nil *zerolog.Logger and panics
LoggerFails ==
    /\ mainPc = "flags"
    /\ exitCode' = exitCodeLogger
    /\ mainPc' = "panic"
    /\ UNCHANGED <<mainRest, log, cfg, ctxErr, resultChannel, closes, osExit, exitStatus,
                   stopError, channels, srvMetrics>>

\* the logger is made and "start" is logged; the monitors that are not disabled
\* are started; with none main returns, else the metrics server is started if
\* enabled and the loop is entered
StartMonitors ==
    /\ mainPc = "flags"
    /\ IF \A m \in Monitors : cfg[m].Disabled
       THEN /\ exitCode' = exitCodeNothingToDo
            /\ mainPc' = "return"
            /\ log' = log \o <<Event("main", "start", 0, "", "nil"),
                                Event("main", "nothing to do", 0, "", "nil")>>
            /\ UNCHANGED channels
       ELSE /\ channels' = [s \in Subsystems |->
                                IF s = "metrics" THEN srvMetrics.Enabled
                                ELSE ~cfg[s].Disabled]
            /\ mainPc' = "select"
            /\ log' = Append(log, Event("main", "start", 0, "", "nil"))
            /\ UNCHANGED exitCode
    /\ UNCHANGED <<mainRest, cfg, ctxErr, resultChannel, closes, osExit, exitStatus,
                   stopError, srvMetrics>>

\* a monitor's worker ends: its deferred function sends the terminal error, if
\* any, logs "stop" and closes the channel
MonitorEnds(m) ==
    /\ mainPc \in {"select", "return"}
    /\ ~cfg[m].Disabled
    /\ closes[m] = 0
    /\ \E e \in {"nil", "error"} :
            /\ resultChannel' = [resultChannel EXCEPT ![m] =
                                    IF e = "nil" THEN <<>> ELSE <<e>>]
            /\ log' = Append(log, Event(m, "stop", 0, "", e))
    /\ closes' = [closes EXCEPT ![m] = 1]
    /\ UNCHANGED <<mainRest, cfg, ctxErr, mainVars>>

\* a faulty test: an error that was received does not end the loop
LoopLeftIgnoresError(cancelled, err, chs) ==
    cancelled \/ \A m \in Monitors : ~chs[m]

\* a faulty test: the loop is left as soon as one monitor channel is nil
LoopLeftWhenOneIsNil(cancelled, err, chs) ==
    cancelled \/ err # "nil" \/ \E m \in Monitors : ~chs[m]

\* the test after the select: the loop is left when the context is cancelled,
\* an error was received or no monitor channel is left
LoopLeft(cancelled, err, chs) ==
    cancelled \/ err # "nil" \/ \A m \in Monitors : ~chs[m]

\* case stopError = <-ocspChannel / tspChannel / httpChannel
ReceiveMonitor(m) ==
    /\ mainPc = "select"
    /\ channels[m]
    /\ resultChannel[m] # <<>> \/ closes[m] = 1
    /\ LET received == IF resultChannel[m] # <<>> THEN Head(resultChannel[m]) ELSE "nil"
           chs == [channels EXCEPT ![m] = FALSE]
       IN  /\ resultChannel' = [resultChannel EXCEPT ![m] = <<>>]
           /\ channels' = chs
           /\ stopError' = IF received # "nil" THEN FailureText[m] ELSE "nil"
           /\ exitCode' = IF received # "nil" THEN FailureExitCode[m] ELSE exitCode
           /\ mainPc' = IF LoopLeft(ctxErr, stopError', chs) THEN "return" ELSE "select"
    /\ UNCHANGED <<mainRest, log, cfg, ctxErr, closes, osExit, exitStatus, srvMetrics>>

\* case stopError = <-srvMetricsChannel: ListenAndServe has returned
ReceiveMetrics ==
    /\ mainPc = "select"
    /\ channels["metrics"]
    /\ stopError' = FailureText["metrics"]
    /\ exitCode' = FailureExitCode["metrics"]
    /\ mainPc' = "return"
    /\ UNCHANGED <<mainRest, log, cfg, ctxErr, resultChannel, closes, osExit, exitStatus,
                   channels, srvMetrics>>

\* case <-osChannel: the operator asks to stop
ReceiveSignal ==
    /\ mainPc = "select"
    /\ ctxErr' = TRUE
    /\ exitCode' = 0
    /\ mainPc' = "return"
    /\ UNCHANGED <<mainRest, log, cfg, resultChannel, closes, osExit, exitStatus,
                   stopError, channels, srvMetrics>>

\* main returns or panics: after the loop a stopError is logged and printed to
\* stderr; then the deferred calls run in reverse order without waiting for a
\* monitor: the metrics server is shut down, the context is cancelled, main's
\* "stop" event (num stands for its exitCode field) is logged, and os.Exit is
\* called with the argument it was given. Before the logger is made and in the
\* panic on the nil logger only os.Exit is deferred.
MainReturns ==
    /\ mainPc \in {"early", "panic", "return"}
    /\ ctxErr' = IF mainPc = "return" THEN TRUE ELSE ctxErr
    /\ log' = IF mainPc = "return"
              THEN (IF stopError # "nil"
                    THEN Append(log, Event("main", "unexpected failure", 0, "", stopError))
                    ELSE log) \o <<Event("main", "stop", exitCode, "", "nil")>>
              ELSE log
    /\ exitStatus' = osExit
    /\ mainPc' = "exited"
    /\ UNCHANGED <<mainRest, cfg, resultChannel, closes, exitCode, osExit,
                   stopError, channels, srvMetrics>>

MainNext ==
    \/ ShowHelp
    \/ BuildConfigFails
    \/ LoggerFails
    \/ StartMonitors
    \/ \E m \in Monitors : MonitorEnds(m)
    \/ \E m \in Monitors : ReceiveMonitor(m)
    \/ ReceiveMetrics
    \/ ReceiveSignal
    \/ MainReturns

MainSpec == MainInit /\ [][MainNext]_vars


\* the subsystem whose failure main has taken, if any
FailedSubsystems == {s \in Subsystems : stopError = FailureText[s]}

\* C22: the exit codes main assigns for an OCSP, a TSP and an HTTP terminal
\* error and for a metrics-server failure are pairwise different and all differ
\* from 0: the code assigned for a failed subsystem is not 0 and is the code of
\* no other subsystem.
C22_ExitCodePerFailingSubsystem ==
    \A s \in FailedSubsystems :
        /\ exitCode # 0
        /\ exitCode = FailureExitCode[s]
        /\ \A t \in Subsystems \ {s} : FailureExitCode[t] # exitCode

\* C23: the status the process exits with is the exit code main assigned:
\* non-zero after a configuration failure, with all monitors disabled, after a
\* terminal error of a monitor or a metrics-server failure, and 0 after a clean
\* shutdown asked by the operator.
C23_ExitStatusIsTheAssignedExitCode ==
    mainPc = "exited" =>
        /\ exitStatus = exitCode
        /\ FailedSubsystems # {} => exitStatus # 0
        /\ (stopError = "nil" /\ \E m \in Monitors : channels[m]) => exitStatus = 0


\* main's event of the failure it stops for
FailureLogged ==
    \E k \in 1..Len(log) :
        log[k] = Event("main", "unexpected failure", 0, "", stopError)

\* main takes the close of the channel of monitor m that carried no error
EmptyCloseTaken(m) ==
    /\ mainPc = "select"
    /\ channels[m] /\ ~channels'[m]
    /\ resultChannel[m] = <<>>

\* C31: when a monitor delivers a non-nil terminal error or the channel of the
\* metrics server yields, main leaves its loop in that iteration, the failure is
\* logged (and printed to stderr) and the context is cancelled before the
\* process exits; the close of a monitor's channel with no error in it is never
\* taken as a failure.
C31_FailureEndsTheLoopAndCancels ==
    [][/\ (mainPc = "select" /\ stopError' # "nil") => mainPc' = "return"
       /\ (mainPc' = "select") => stopError' = "nil"
       /\ (mainPc' = "exited" /\ stopError' # "nil") => (ctxErr' /\ FailureLogged')
       /\ \A m \in Monitors :
            EmptyCloseTaken(m) => (stopError' = "nil" /\ exitCode' = exitCode)]_vars

\* the OCSP monitor failed while the TSP monitor still runs: main has logged the
\* failure, cancelled the context and exited
C31_Witness ==
    /\ mainPc = "exited"
    /\ stopError = FailureText["ocsp"]
    /\ FailureLogged
    /\ ctxErr
    /\ closes["tsp"] = 0 /\ ~cfg["tsp"].Disabled

\* C32: main keeps waiting while a started monitor's channel is not yet taken
\* as closed, no failure was received and no signal arrived; once the channel of
\* every started monitor was closed with no error it leaves the loop with exit
\* code 0; a monitor channel that was closed is never selected again.
C32_WaitsUntilEveryMonitorHasClosed ==
    [][/\ (mainPc = "select" /\ stopError' = "nil" /\ ~ctxErr'
            /\ \E m \in Monitors : channels'[m]) => mainPc' = "select"
       /\ (mainPc = "select" /\ stopError' = "nil" /\ \A m \in Monitors : ~channels'[m]) =>
                (mainPc' = "return" /\ exitCode' = 0)
       /\ \A m \in Monitors :
            (mainPc = "select" /\ ~channels[m]) =>
                (~channels'[m] /\ resultChannel'[m] = resultChannel[m])]_vars

\* two monitors were started, both closed their channels with no error, and
\* main left the loop after the second close
C32_Witness ==
    /\ mainPc = "return"
    /\ ~cfg["ocsp"].Disabled /\ ~cfg["http"].Disabled
    /\ \A m \in Monitors : ~channels[m]
    /\ closes["ocsp"] = 1 /\ closes["http"] = 1
    /\ stopError = "nil"
    /\ ~ctxErr
    /\ exitCode = 0

\* the monitors main has started
Started ==
    {m \in Monitors :
        /\ ~cfg[m].Disabled
        /\ \E k \in 1..Len(log) : log[k] = Event("main", "start", 0, "", "nil")}

\* C37: on shutdown, after an operator interrupt or a failure of another
\* subsystem, the process does not exit before every started monitor has
\* emitted its "stop" event and closed its result channel.
C37_ExitWaitsForTheMonitors ==
    mainPc = "exited" =>
        \A m \in Started :
            /\ closes[m] = 1
            /\ \E k \in 1..Len(log) : log[k].protocol = m /\ log[k].msg = "stop"

\* C40: when the logger cannot be made main sets exit code 2 and terminates
\* without logging through the missing logger and without starting a monitor
\* or the metrics server: it never uses the nil logger, so it does not panic.
C40_LoggerFailureEndsMainCleanly ==
    exitCode = exitCodeLogger =>
        /\ mainPc \in {"early", "exited"}
        /\ \A sub \in Subsystems : ~channels[sub]
        /\ log = <<>>

\* --------------------------------------------------------- monitors together

\* two monitors run side by side: OCSP makes one attempt, HTTP two with a wait
ConcurrentInit ==
    /\ cfg = [m \in Monitors |->
                IF m = "tsp" THEN DisabledConfig
                ELSE [Disabled |-> FALSE, URLParses |-> TRUE,
                      RetryCount |-> IF m = "http" THEN 2 ELSE 1,
                      RetryIntervalValue |-> MaxInterval, NonceSize |-> 0,
                      MaxResponseSize |-> 0]]
    /\ verbose = FALSE
    /\ ctxErr = FALSE
    /\ caller = [m \in Monitors |-> "main"]
    /\ sch = [m \in Monitors |-> FALSE]
    /\ pc = [m \in Monitors |-> "off"]
    /\ i = [m \in Monitors |-> 0]
    /\ lastError = [m \in Monitors |-> "nil"]
    /\ resultChannel = [m \in Monitors |-> <<>>]
    /\ closes = [m \in Monitors |-> 0]
    /\ dropped = [m \in Monitors |-> FALSE]
    /\ sends = [m \in Monitors |-> 0]
    /\ waits = [m \in Monitors |-> 0]
    /\ observations = [m \in Monitors |-> 0]
    /\ responseErrors = [m \in Monitors |-> [et \in ErrorTypes |-> 0]]
    /\ timer = [m \in Monitors |-> 0]
    /\ panicking = [m \in Monitors |-> FALSE]
    /\ nr = [m \in Monitors |-> NoResult]
    /\ exit = [m \in Monitors |-> "none"]
    /\ log = <<>>
    /\ CodecIdle
    /\ TransportIdle
    /\ ConfigIdle
    /\ MainIdle

ConcurrentSpec == ConcurrentInit /\ [][Next]_vars

\* the state of monitor o that belongs to its goroutine, and its metric series
OwnState(o) ==
    <<pc[o], i[o], lastError[o], nr[o], timer[o], exit[o],
      observations[o], responseErrors[o]>>

defaultOcspNonceSize == 8

defaultOcspMaxResponseSize == 8192

defaultTspNonceSize == 8

defaultTspMaxResponseSize == 8192

\* the sections of the monitors buildConfig fills
ConfigSections == {"ocsp", "tsp"}

\* the flags of these sections that are followed: <<section, name>> stands for
\* the flag "section.name"
Flags == ConfigSections \X {"noncesize", "maxresponsesize"}

\* the value of a flag that was not given: the default it was defined with
FlagDefault(f) ==
    CASE f = <<"ocsp", "noncesize">> -> defaultOcspNonceSize
      [] f = <<"tsp", "noncesize">> -> defaultTspNonceSize
      [] f = <<"ocsp", "maxresponsesize">> -> defaultOcspMaxResponseSize
      [] f = <<"tsp", "maxresponsesize">> -> defaultTspMaxResponseSize

\* xConfig.SetDefaults on the section as decoded from the file; a *int64 that
\* the file does not set is nil, here <<>>. Both sections take
\* defaultOcspMaxResponseSize.
SetDefaults(s, c) ==
    [NonceSize |-> IF c.NonceSize < 1
                   THEN (IF s = "ocsp" THEN defaultOcspNonceSize ELSE defaultTspNonceSize)
                   ELSE c.NonceSize,
     MaxResponseSize |-> IF c.MaxResponseSize = <<>> \/ c.MaxResponseSize[1] = 0
                         THEN defaultOcspMaxResponseSize
                         ELSE c.MaxResponseSize[1]]

\* xConfig.UpdateCommandLine: the switch over the names of the given flags; the
\* value is read from the flag's variable. The case that sets the maximum
\* response size of the TSP section is "ocsp.maxresponsesize".
UpdateCommandLine(s, c, flags) ==
    [NonceSize |-> IF <<s, "noncesize">> \in flags.given
                   THEN flags.value[<<s, "noncesize">>]
                   ELSE c.NonceSize,
     MaxResponseSize |->
        LET case == IF s = "ocsp" THEN <<"ocsp", "maxresponsesize">>
                    ELSE <<"ocsp", "maxresponsesize">>
        IN  IF case \in flags.given
            THEN flags.value[<<s, "maxresponsesize">>]
            ELSE c.MaxResponseSize]

\* the values a configuration file or a flag gives
GivenValues(f) ==
    IF f[2] = "noncesize" THEN {0, MaxNonceSize} ELSE {0, MaxBodyLen - 1, MaxBodyLen}

\* the process before buildConfig: a configuration file (a section that sets
\* nothing decodes to zero values) and the command line
ConfigInit ==
    /\ MonitorsIdle
    /\ CodecIdle
    /\ TransportIdle
    /\ MainIdle
    /\ configFile \in [ConfigSections ->
                        [NonceSize : {0, MaxNonceSize},
                         MaxResponseSize : {<<>>, <<0>>, <<MaxBodyLen - 1>>}]]
    /\ givenFlags \in {fl \in [given : SUBSET Flags,
                               value : [Flags -> UNION {GivenValues(f) : f \in Flags}
                                                    \cup {FlagDefault(f) : f \in Flags}]] :
                            \A f \in Flags :
                                IF f \in fl.given THEN fl.value[f] \in GivenValues(f)
                                ELSE fl.value[f] = FlagDefault(f)}
    /\ out = <<>>
    /\ configPc = "start"

\* buildConfig returns the configuration: the file is decoded, the defaults
\* are set, the given flags are applied, and Validate accepts the result
buildConfig ==
    /\ configPc = "start"
    /\ out' = [s \in ConfigSections |->
                UpdateCommandLine(s, SetDefaults(s, configFile[s]), givenFlags)]
    /\ configPc' = "done"
    /\ UNCHANGED <<monitorRest, responseErrors, codecVars, transportVars, mainVars,
                   configFile, givenFlags>>

\* buildConfig returns an error: the file cannot be read or parsed, or Validate
\* rejects a field
buildConfigFails ==
    /\ configPc = "start"
    /\ configPc' = "failed"
    /\ UNCHANGED <<monitorRest, responseErrors, codecVars, transportVars, mainVars,
                   configFile, givenFlags, out>>

ConfigNext ==
    \/ buildConfig
    \/ buildConfigFails

ConfigSpec == ConfigInit /\ [][ConfigNext]_vars


\* the field of the configuration a flag stands for
FieldOf(f) ==
    IF f[2] = "noncesize" THEN out[f[1]].NonceSize ELSE out[f[1]].MaxResponseSize

\* the field as the file and the defaults set it
FieldBeforeFlags(f) ==
    IF f[2] = "noncesize" THEN SetDefaults(f[1], configFile[f[1]]).NonceSize
    ELSE SetDefaults(f[1], configFile[f[1]]).MaxResponseSize

\* C28: command-line parameters take priority over the configuration file:
\* after buildConfig the field of every flag that was given equals the flag's
\* value, whatever the file or the defaults set, and a field whose flag was not
\* given is what the file and the defaults made it, whatever flags of other
\* sections were given.
C28_GivenFlagsTakePriority ==
    configPc = "done" =>
        \A f \in Flags :
            FieldOf(f) = IF f \in givenFlags.given
                         THEN givenFlags.value[f]
                         ELSE FieldBeforeFlags(f)

\* response bodies up to one byte more than the default limit
LongBodies == [len : {MaxBodyLen, defaultOcspMaxResponseSize, defaultOcspMaxResponseSize + 1},
               kind : {"valid"}]

\* maxresponsesize of section s is set to 0, in the file or, with priority, by
\* its flag
SetToZero(s) ==
    IF <<s, "maxresponsesize">> \in givenFlags.given
    THEN givenFlags.value[<<s, "maxresponsesize">>] = 0
    ELSE configFile[s].MaxResponseSize = <<0>>

\* C29: if a monitor's maxresponsesize is set to 0 the size of the response is
\* not limited: the transport is called with a maximum of 0 and reads the whole
\* body without a size error.
C29_ZeroMeansUnlimited ==
    configPc = "done" =>
        \A s \in ConfigSections :
            SetToZero(s) =>
                /\ out[s].MaxResponseSize = 0
                /\ \A b \in LongBodies :
                        /\ ReadBody(b, out[s].MaxResponseSize).err = "nil"
                        /\ ReadBody(b, out[s].MaxResponseSize).Body = b

====
